---- MODULE Spec2Model ----
(***************************************************************************)
(* Verification model of libmft (jldantas/libmft).                         *)
(*                                                                         *)
(* The module holds independent machines, one per part of the library,     *)
(* each with its own specification:                                        *)
(*   Spec               : MFT construction (stub scan), iteration and      *)
(*                        random access (src/libmft/api.py, class MFT)     *)
(*   SpecFixup          : apply_fixup_array (src/libmft/util/functions.py) *)
(*   SpecDS             : Datastream (src/libmft/api.py)                   *)
(*   SpecEntry          : MFTEntry: loading and merging of attributes      *)
(*   SpecFn             : MFTEntry.get_main_filename_attr                  *)
(*   SpecPath           : MFT.get_entry_full_path                          *)
(*   SpecTime           : convert_filetime, Timestamps.create_from_binary  *)
(*   SpecSize           : MFT._find_mft_size                               *)
(*   SpecRuns           : DataRuns.__init__ (src/libmft/headers.py)        *)
(*   SpecWalk           : MFTEntry._load_attributes                        *)
(*   SpecList           : AttributeList.create_from_binary                 *)
(*   SpecNoStub         : MFT built without the stub scan, iteration       *)
(* A machine that is not the subject of a specification stays in its idle  *)
(* state under that specification.                                         *)
(***************************************************************************)
EXTENDS Integers, Sequences, FiniteSets, TLC

VARIABLES
    \* ---- MFT (api.py, class MFT) ----
    file,                   \* the MFT file: one stub-sized view per slot
    pc,                     \* "init" | "ready" | "failed" (constructor outcome)
    scan_error,             \* exception escaping _load_stub_info, or "none"
    entries_parent_child,   \* MFT._entries_parent_child  (base -> extensions)
    entries_child_parent,   \* MFT._entries_child_parent  (extension -> base)
    empty_entries,          \* MFT._empty_entries
    number_valid_entries,   \* MFT._number_valid_entries
    it_state,               \* generator of MFT.__iter__: "idle" | "running" | "stopped" | "MFTError"
    it_pos,                 \* next slot the generator's for-loop examines
    returned,               \* local variable 'returned' of __iter__
    yielded,                \* record numbers yielded so far, in order
    get_index,              \* argument of the last MFT.__getitem__ call (-1: none)
    get_result,             \* "none" | "entry" | "ValueError"
    get_reads,              \* slots read from the file by that call, in order
    \* ---- apply_fixup_array (util/functions.py) ----
    bin_view,               \* the entry buffer (mutated in place)
    fx_input,               \* the buffer as it was handed to the call
    fx_offset,              \* argument fx_offset
    fx_count,               \* argument fx_count
    entry_size,             \* argument entry_size
    fx_pc,                  \* "idle" | "start" | "loop" | "done" | "FixUpError" | "ZeroDivisionError" | "ValueError"
    sector_size,            \* local sector_size
    fx_index,               \* local index
    position,               \* local position
    fx_checked,             \* positions compared against the signature, in order
    \* ---- Datastream (api.py, class Datastream) ----
    ds,                     \* the Datastream object
    ds_call,                \* the last call made on it: "none" | "add_data_attribute" | "add_from_datastream" | "dataruns"
    ds_result,              \* its outcome: "none" | "ok" | "DataStreamError"
    ds_read,                \* the list a successful read of .dataruns returned
    ds_added,               \* how often each run list was added so far (bag)
    ds_reordered            \* whether the last read of .dataruns had to reorder the list

mft_vars == <<file, pc, scan_error, entries_parent_child, entries_child_parent,
              empty_entries, number_valid_entries, it_state, it_pos, returned,
              yielded, get_index, get_result, get_reads>>

fx_vars == <<bin_view, fx_input, fx_offset, fx_count, entry_size, fx_pc,
             sector_size, fx_index, position, fx_checked>>

ds_vars == <<ds, ds_call, ds_result, ds_read, ds_added, ds_reordered>>

VARIABLES
    \* ---- MFTEntry as read by MFT._read_full_entry (api.py) ----
    en_pc,                  \* "idle" | "load" | "done" | "HeaderError" | "ContentError" | "DataStreamError"
    en_loading,             \* 0: the base entry is being walked; k: the k-th extension (temp_entry)
    en_extras,              \* number of extensions registered for the record (len(extras))
    en_walked,              \* the attributes the walker has met so far, in order
    en_attrs,               \* entry.attrs: the non-DATA attributes of the entry, in order
    en_streams,             \* entry.data_streams
    tmp_attrs,              \* temp_entry.attrs
    tmp_streams,            \* temp_entry.data_streams
    en_read                 \* the last read made on the returned entry and its outcome

en_vars == <<en_pc, en_loading, en_extras, en_walked, en_attrs, en_streams, tmp_attrs,
             tmp_streams, en_read>>

VARIABLES
    \* ---- MFTEntry.get_main_filename_attr (api.py) ----
    fn_pc,                  \* "idle" | "start" | "done"
    entry_fn_attrs,         \* the list get_attributes(AttrTypes.FILE_NAME) returns (<<>>: None)
    entry_main_fn           \* position in entry_fn_attrs of the attribute returned (0: None)

fn_vars == <<fn_pc, entry_fn_attrs, entry_main_fn>>

VARIABLES
    \* ---- MFT.get_entry_full_path (api.py) ----
    pt_pc,                  \* "idle" | "start" | "loop" | "returned" | "MFTError" | "ValueError" | "EntryError" | "AttributeError"
    pt_mft,                 \* the loaded MFT: what each record number holds
    pt_entry_number,        \* argument entry_number (None: not given)
    pt_entry,               \* argument entry: the record number of the entry object given (None: not given)
    working_entry,          \* local working_entry, by record number
    names,                  \* local names
    pt_index,               \* local index
    pt_seq,                 \* local seq
    is_orphan,              \* local is_orphan
    pt_visited,             \* the record numbers passed to self[index] in the loop, in order
    pt_path                 \* the path returned

pt_vars == <<pt_pc, pt_mft, pt_entry_number, pt_entry, working_entry, names, pt_index,
             pt_seq, is_orphan, pt_visited, pt_path>>

VARIABLES
    \* ---- convert_filetime, Timestamps.create_from_binary ----
    tm_pc,                  \* "idle" | "start" | "converted" | "returned" | "ContentError"
    tm_stream,              \* argument binary_stream of create_from_binary
    tm_filetime,            \* argument filetime of the convert_filetime call
    tm_converted,           \* what convert_filetime(filetime) returned
    tm_created,             \* nw_obj.created
    tm_changed,             \* nw_obj.changed
    tm_mft_changed,         \* nw_obj.mft_changed
    tm_accessed             \* nw_obj.accessed

tm_vars == <<tm_pc, tm_stream, tm_filetime, tm_converted, tm_created, tm_changed,
             tm_mft_changed, tm_accessed>>

VARIABLES
    \* ---- MFT._find_mft_size (api.py) ----
    sz_pc,                  \* "idle" | "start" | "returned" | "MFTError"
    sz_head,                \* the bytes of file_object at offsets 0..4
    sz_windows,             \* what read(4) returns at each candidate offset above 4
    sz_pos,                 \* the position of file_object
    sz_size                 \* the size returned

sz_vars == <<sz_pc, sz_head, sz_windows, sz_pos, sz_size>>

VARIABLES
    \* ---- DataRuns.__init__ (headers.py) ----
    dr_pc,                  \* "idle" | "start" | "returned" | "IndexError"
    dr_source,              \* the run list the view was taken from, as fields
    dr_view,                \* argument runs_view
    dr_data_runs            \* self.data_runs of the object constructed

dr_vars == <<dr_pc, dr_source, dr_view, dr_data_runs>>

VARIABLES
    \* ---- MFTEntry._load_attributes (api.py) ----
    wk_pc,                  \* "idle" | "walk" | "done" | "struct.error"
    wk_source,              \* the attributes the area was built from
    wk_tail,                \* the cells of the area after its end marker
    wk_view,                \* argument attrs_view
    wk_load_attrs,          \* mft_config._load_attrs
    wk_offset,              \* local offset
    wk_attrs,               \* self.attrs
    wk_streams,             \* self.data_streams
    wk_parsed               \* the offsets at which an attribute was decoded, in order

wk_vars == <<wk_pc, wk_source, wk_tail, wk_view, wk_load_attrs, wk_offset, wk_attrs,
             wk_streams, wk_parsed>>

VARIABLES
    al_pc,
    al_source,
    al_view,
    al_offset,
    attr_list

al_vars == <<al_pc, al_source, al_view, al_offset, attr_list>>

vars == <<mft_vars, fx_vars, ds_vars, en_vars, fn_vars, pt_vars, tm_vars, sz_vars, dr_vars, wk_vars, al_vars>>

(***************************************************************************)
(* Bounds                                                                  *)
(***************************************************************************)
NumSlots == 3      \* slots in the MFT file
MaxSeq == 2        \* the sequence numbers used are 1 and MaxSeq
MaxByte == 1       \* the byte values used are 0 and MaxByte
MaxBufLen == 7     \* longest arbitrary entry buffer
MaxFxOffset == 1   \* fixup array offsets range over 0..MaxFxOffset
MaxFxCount == 3    \* fx_count of arbitrary buffers ranges over 0..MaxFxCount
MaxSectors == 2    \* sectors of a sector-structured entry
SectorSize == 8    \* sector size of a sector-structured entry
MaxFxIter == 4     \* cap on the loop counter 'index' of apply_fixup_array
MaxVcn == 1        \* start and end VCNs range over 0..MaxVcn
MaxSize == 1       \* current stream sizes range over 0..MaxSize
MaxContentLen == 1 \* longest resident content
MaxFrags == 2      \* cap on the fragments held by the Datastream
MaxSrcAttrs == 1   \* DATA attributes of an extension entry's stream
MaxAttrs == 2      \* attributes met by the walker while one record is read
MaxExtras == 1     \* extension entries of the record being read
MaxAttrId == 2     \* attribute ids range over 1..MaxAttrId
MaxFnAttrs == 2    \* FILE_NAME attributes of an entry
NumPathSlots == 2  \* records of the MFT whose paths are resolved
MaxPathSteps == 3  \* cap on the names collected by get_entry_full_path
MaxFiletime == 100 \* the largest one-byte FILETIME value converted
MaxRuns == 3       \* runs of a run list
MaxWalkAttrs == 2  \* attributes of the attribute area walked
MaxAttrLen == 2    \* cells of an attribute
MaxListEntries == 2 \* entries written into an ATTRIBUTE_LIST content
MaxListIter == 4   \* cap on the entries decoded from one ATTRIBUTE_LIST content

(***************************************************************************)
(* MFT: stub scan                                                          *)
(***************************************************************************)
Slots == 0 .. NumSlots - 1

\* A slot as seen by the stub reader: 'empty' is "the first four bytes are
\* zero"; the other fields are the unpacked sequence number and base record
\* reference.  The stored base sequence is irrelevant when the base record
\* number is 0 (the scan never looks at it), so it is fixed to 0 there.
EmptySlot == [empty |-> TRUE, seq_number |-> 0, base_record_ref |-> 0, base_record_seq |-> 0]

\* seq_number and base_record_seq are only ever compared for equality
\* (is_related), so two values are told apart
SeqNumbers == {1, MaxSeq}

SlotContents ==
    {EmptySlot}
    \cup {[empty |-> FALSE, seq_number |-> s, base_record_ref |-> 0, base_record_seq |-> 0] :
            s \in SeqNumbers}
    \cup {[empty |-> FALSE, seq_number |-> s, base_record_ref |-> r, base_record_seq |-> q] :
            s \in SeqNumbers, r \in 1 .. NumSlots, q \in SeqNumbers}

\* _MFTEntryStub.load_from_file_pointer: None for an empty slot, else the stub
\* with mft_record = record_n.
load_from_file_pointer(binary_stream, record_n) ==
    IF binary_stream.empty
    THEN [none |-> TRUE, mft_record |-> record_n, seq_number |-> 0,
          base_record_ref |-> 0, base_record_seq |-> 0]
    ELSE [none |-> FALSE, mft_record |-> record_n, seq_number |-> binary_stream.seq_number,
          base_record_ref |-> binary_stream.base_record_ref,
          base_record_seq |-> binary_stream.base_record_seq]

\* the list 'temp' built by the first loop of _load_stub_info (index i+1 holds slot i)
StubList(f) == [k \in 1 .. Len(f) |-> load_from_file_pointer(f[k], k - 1)]

is_related_NoSeq(self, child_entry) ==
    self.mft_record = child_entry.base_record_ref

\* _MFTEntryStub.is_related
is_related(self, child_entry) ==
    /\ self.mft_record = child_entry.base_record_ref
    /\ self.seq_number = child_entry.base_record_seq

NoMaps == [parent_child |-> [b \in Slots |-> <<>>],
           child_parent |-> << >>,
           empty |-> {},
           valid |-> 0,
           error |-> "none"]

\* registration of one extension (the two assignments under the 'if')
RegisterChild(st, stub) ==
    [st EXCEPT !.parent_child[stub.base_record_ref] = Append(@, stub.mft_record),
               !.child_parent = [c \in DOMAIN st.child_parent \cup {stub.mft_record} |->
                                    IF c = stub.mft_record THEN stub.base_record_ref
                                    ELSE st.child_parent[c]]]

\* The second loop of _load_stub_info, from list position i on.  temp[ref]
\* raises IndexError past the end of the list and .is_related raises
\* AttributeError on None; both abort the scan (and the constructor).
RECURSIVE MapStubs(_, _, _)
MapStubs(temp, i, st) ==
    IF i >= Len(temp) THEN st
    ELSE LET stub == temp[i + 1] IN
         IF stub.none THEN MapStubs(temp, i + 1, [st EXCEPT !.empty = @ \cup {i}])
         ELSE LET st1 == [st EXCEPT !.valid = @ + 1] IN
              IF stub.base_record_ref # 0
              THEN IF stub.base_record_ref >= Len(temp)
                   THEN [st1 EXCEPT !.error = "IndexError"]
                   ELSE IF temp[stub.base_record_ref + 1].none
                   THEN [st1 EXCEPT !.error = "AttributeError"]
                   ELSE IF is_related(temp[stub.base_record_ref + 1], stub)
                   THEN MapStubs(temp, i + 1, RegisterChild(st1, stub))
                   ELSE MapStubs(temp, i + 1, st1)
              ELSE MapStubs(temp, i + 1, st1)

\* MFT.__init__ with create_initial_information = True: runs _load_stub_info
LoadStubInfo ==
    /\ pc = "init"
    /\ LET st == MapStubs(StubList(file), 0, NoMaps) IN
        /\ entries_parent_child' = st.parent_child
        /\ entries_child_parent' = st.child_parent
        /\ empty_entries' = st.empty
        /\ number_valid_entries' = st.valid
        /\ scan_error' = st.error
        /\ pc' = IF st.error = "none" THEN "ready" ELSE "failed"
    /\ UNCHANGED <<file, it_state, it_pos, returned, yielded, get_index, get_result, get_reads>>
    /\ UNCHANGED <<fx_vars, ds_vars, en_vars, fn_vars, pt_vars, tm_vars, sz_vars, dr_vars, wk_vars, al_vars>>

\* MFT.__init__ with create_initial_information = False: _load_stub_info is
\* not called, the maps, the set of empty slots and the counter stay as
\* the constructor made them
InitWithoutStubInfo ==
    /\ pc = "init"
    /\ pc' = "ready"
    /\ UNCHANGED <<file, scan_error, entries_parent_child, entries_child_parent,
                   empty_entries, number_valid_entries, it_state, it_pos, returned,
                   yielded, get_index, get_result, get_reads>>
    /\ UNCHANGED <<fx_vars, ds_vars, en_vars, fn_vars, pt_vars, tm_vars, sz_vars, dr_vars, wk_vars, al_vars>>

(***************************************************************************)
(* MFT: random access and iteration                                        *)
(***************************************************************************)
\* the guard of MFT.__getitem__: TRUE when the call raises ValueError
NotABase_NoChildCheck(index) == index \in empty_entries

NotABase(index) ==
    \/ index \in empty_entries
    \/ index \in DOMAIN entries_child_parent

extras_Reversed(entry_number) ==
    LET e == entries_parent_child[entry_number]
    IN [k \in 1 .. Len(e) |-> e[Len(e) + 1 - k]]

ReadFullEntry_Reversed(entry_number) ==
    <<entry_number>> \o extras_Reversed(entry_number)

\* MFT._read_full_entry: the slots read, base first, then the extensions in
\* the order of the forward map
ReadFullEntry(entry_number) ==
    <<entry_number>> \o entries_parent_child[entry_number]

\* MFT.__getitem__(index).  The lru_cache in front of it memoises successful
\* results of a function of (index, maps, file), none of which changes after
\* construction, so a call served from the cache returns the entry built by
\* the reads recorded here.
GetItem(index) ==
    /\ pc = "ready"
    /\ it_state = "idle"
    /\ get_index' = index
    /\ IF NotABase(index)
       THEN get_result' = "ValueError" /\ get_reads' = <<>>
       ELSE get_result' = "entry" /\ get_reads' = ReadFullEntry(index)
    /\ UNCHANGED <<file, pc, scan_error, entries_parent_child, entries_child_parent,
                   empty_entries, number_valid_entries, it_state, it_pos, returned, yielded>>
    /\ UNCHANGED <<fx_vars, ds_vars, en_vars, fn_vars, pt_vars, tm_vars, sz_vars, dr_vars, wk_vars, al_vars>>

IterSkip_NoChildCheck(mft_record_n) == mft_record_n \in empty_entries

\* the 'continue' condition of MFT.__iter__
IterSkip(mft_record_n) ==
    \/ mft_record_n \in empty_entries
    \/ mft_record_n \in DOMAIN entries_child_parent

IterScan_Unchecked(i, ret) ==
    IF i >= Len(file) THEN [kind |-> "stopped", pos |-> i]
    ELSE [kind |-> "yield", pos |-> i]

\* The for-loop of MFT.__iter__ from slot i until the generator yields,
\* raises or is exhausted.
RECURSIVE IterScan(_, _)
IterScan(i, ret) ==
    IF i >= Len(file) THEN [kind |-> "stopped", pos |-> i]
    ELSE IF ret > number_valid_entries THEN [kind |-> "MFTError", pos |-> i]
    ELSE IF IterSkip(i) THEN IterScan(i + 1, ret)
    ELSE [kind |-> "yield", pos |-> i]

\* one next() on the generator returned by MFT.__iter__
IterNext ==
    /\ pc = "ready"
    /\ it_state \in {"idle", "running"}
    /\ LET r == IterScan(it_pos, returned) IN
        IF r.kind = "yield" /\ NotABase(r.pos)
        THEN \* self[mft_record_n] raises and the exception leaves the generator
             /\ it_state' = "ValueError"
             /\ returned' = returned + 1
             /\ it_pos' = r.pos
             /\ get_index' = r.pos
             /\ get_result' = "ValueError"
             /\ get_reads' = <<>>
             /\ UNCHANGED yielded
        ELSE IF r.kind = "yield" /\ file[r.pos + 1].empty
        THEN \* the slot was not recorded as empty and is read: MFTHeader.
             \* create_from_binary finds no signature, HeaderError leaves
             \* the generator
             /\ it_state' = "HeaderError"
             /\ returned' = returned + 1
             /\ it_pos' = r.pos
             /\ get_index' = r.pos
             /\ get_result' = "HeaderError"
             /\ get_reads' = <<r.pos>>
             /\ UNCHANGED yielded
        ELSE IF r.kind = "yield"
        THEN /\ it_state' = "running"
             /\ returned' = returned + 1
             /\ yielded' = Append(yielded, r.pos)
             /\ it_pos' = r.pos + 1
             /\ get_index' = r.pos              \* yield self[mft_record_n]
             /\ get_result' = "entry"
             /\ get_reads' = ReadFullEntry(r.pos)
        ELSE /\ it_state' = r.kind
             /\ it_pos' = r.pos
             /\ get_index' = -1
             /\ get_result' = "none"
             /\ get_reads' = <<>>
             /\ UNCHANGED <<returned, yielded>>
    /\ UNCHANGED <<file, pc, scan_error, entries_parent_child, entries_child_parent,
                   empty_entries, number_valid_entries>>
    /\ UNCHANGED <<fx_vars, ds_vars, en_vars, fn_vars, pt_vars, tm_vars, sz_vars, dr_vars, wk_vars, al_vars>>

(***************************************************************************)
(* Idle state of the MFT machine                                           *)
(***************************************************************************)
MftIdle ==
    /\ pc = "init"
    /\ scan_error = "none"
    /\ entries_parent_child = NoMaps.parent_child
    /\ entries_child_parent = NoMaps.child_parent
    /\ empty_entries = {}
    /\ number_valid_entries = 0
    /\ it_state = "idle"
    /\ it_pos = 0
    /\ returned = 0
    /\ yielded = <<>>
    /\ get_index = -1
    /\ get_result = "none"
    /\ get_reads = <<>>


(***************************************************************************)
(* apply_fixup_array                                                       *)
(***************************************************************************)
\* bytes are only copied and compared, so two values are told apart
Byte == {0, MaxByte}
BytePair == {<<a, b>> : a \in Byte, b \in Byte}

\* Python slice s[a:b] of a sequence of length n, as the half-open range
\* [lo, hi) of 0-based offsets: negative indices count from the end and both
\* ends are clipped to the sequence.
ClipIndex(i, n) ==
    IF i < 0 THEN (IF i + n < 0 THEN 0 ELSE i + n)
    ELSE (IF i > n THEN n ELSE i)

PySlice(a, b, n) ==
    LET lo == ClipIndex(a, n)
        hi == ClipIndex(b, n)
    IN [lo |-> lo, hi |-> IF hi < lo THEN lo ELSE hi]

SliceLen(r) == r.hi - r.lo

\* the bytes of buffer buf in the range r
SliceBytes(buf, r) == [k \in 1 .. SliceLen(r) |-> buf[r.lo + k]]

\* fx_array = bin_view[fx_offset:fx_offset+(2 * fx_count)]: a memoryview, i.e.
\* a window on the buffer, not a copy
FxArray(buf) == PySlice(fx_offset, fx_offset + 2 * fx_count, Len(buf))

\* fx_array[a:b] as a range of the buffer
FxArraySlice(buf, a, b) ==
    LET fa == FxArray(buf)
        r == PySlice(a, b, SliceLen(fa))
    IN [lo |-> fa.lo + r.lo, hi |-> fa.lo + r.hi]

\* int(entry_size / fx_len): true division, truncated towards zero
IntDiv(a, b) ==
    IF b > 0 THEN a \div b ELSE 0 - (a \div (0 - b))

\* fx_array[:2], the signature
FxSignature(buf) == FxArraySlice(buf, 0, 2)

FxReplacement_OffByOne(buf, index) == FxArraySlice(buf, (index - 1) * 2, ((index - 1) * 2) + 2)

\* fx_array[index * 2:(index * 2) + 2], the stored original of sector 'index'
FxReplacement(buf, index) == FxArraySlice(buf, index * 2, (index * 2) + 2)

\* bin_view[position:position+2]
FxTarget(buf, pos) == PySlice(pos, pos + 2, Len(buf))

\* slice assignment buf[dst] = buf[src] (bytes are copied as they were before
\* the assignment); only defined for ranges of equal length
AssignSlice(buf, dst, src) ==
    [k \in 1 .. Len(buf) |->
        IF k - 1 >= dst.lo /\ k - 1 < dst.hi THEN buf[src.lo + (k - dst.lo)] ELSE buf[k]]

\* lines 49-55: slices the array, computes the sector size and the first position
FixupStart ==
    /\ fx_pc = "start"
    /\ IF fx_count - 1 = 0
       THEN /\ fx_pc' = "ZeroDivisionError"
            /\ UNCHANGED <<sector_size, fx_index, position>>
       ELSE /\ sector_size' = IntDiv(entry_size, fx_count - 1)
            /\ fx_index' = 1
            /\ position' = (sector_size' * 1) - 2
            /\ fx_pc' = "loop"
    /\ UNCHANGED <<bin_view, fx_input, fx_offset, fx_count, entry_size, fx_checked>>
    /\ UNCHANGED <<mft_vars, ds_vars, en_vars, fn_vars, pt_vars, tm_vars, sz_vars, dr_vars, wk_vars, al_vars>>

\* lines 56-65: the loop test and one iteration of the while loop
FixupLoop ==
    /\ fx_pc = "loop"
    /\ fx_index <= MaxFxIter
    /\ IF ~(position <= entry_size)
       THEN /\ fx_pc' = "done"
            /\ UNCHANGED <<bin_view, fx_index, position, fx_checked>>
       ELSE /\ fx_checked' = Append(fx_checked, position)
            /\ IF SliceBytes(bin_view, FxTarget(bin_view, position))
                    = SliceBytes(bin_view, FxSignature(bin_view))
               THEN IF SliceLen(FxTarget(bin_view, position))
                          = SliceLen(FxReplacement(bin_view, fx_index))
                    THEN /\ bin_view' = AssignSlice(bin_view, FxTarget(bin_view, position),
                                                    FxReplacement(bin_view, fx_index))
                         /\ fx_index' = fx_index + 1
                         /\ position' = (sector_size * (fx_index + 1)) - 2
                         /\ UNCHANGED fx_pc
                    ELSE /\ fx_pc' = "ValueError"   \* memoryview assignment of another length
                         /\ UNCHANGED <<bin_view, fx_index, position>>
               ELSE /\ fx_pc' = "FixUpError"
                    /\ UNCHANGED <<bin_view, fx_index, position>>
    /\ UNCHANGED <<fx_input, fx_offset, fx_count, entry_size, sector_size>>
    /\ UNCHANGED <<mft_vars, ds_vars, en_vars, fn_vars, pt_vars, tm_vars, sz_vars, dr_vars, wk_vars, al_vars>>

FxIdle ==
    /\ bin_view = <<>>
    /\ fx_input = <<>>
    /\ fx_offset = 0
    /\ fx_count = 0
    /\ entry_size = 0
    /\ fx_pc = "idle"
    /\ sector_size = 0
    /\ fx_index = 0
    /\ position = 0
    /\ fx_checked = <<>>

\* arbitrary entry buffers with arbitrary header fields
ArbitraryBuffers == UNION {[1 .. n -> Byte] : n \in 1 .. MaxBufLen}

\* An entry of nsect sectors of SectorSize bytes: the fixup array (signature
\* sig, then one stored pair per sector) at offset off, the pair tails[i] in
\* the last two bytes of sector i, zero everywhere else.
SectorEntry(nsect, off, sig, subs, tails) ==
    [k \in 1 .. nsect * SectorSize |->
        LET o == k - 1
            s == (o \div SectorSize) + 1
            t == o - ((s * SectorSize) - 2)
            a == o - off
        IN IF t >= 0 THEN tails[s][t + 1]
           ELSE IF a >= 0 /\ a < 2 THEN sig[a + 1]
           ELSE IF a >= 2 /\ a < 2 * (nsect + 1) THEN subs[a \div 2][(a % 2) + 1]
           ELSE 0]


(***************************************************************************)
(* Datastream                                                              *)
(***************************************************************************)
Names == {"", "ads1"}      \* "" stands for the unnamed stream (name None)

\* A run list is identified by the VCN range of the attribute that carries
\* it; a fragment is the tuple (start_vcn, dataruns) of Datastream._data_runs.
RunLists ==
    {r \in [start_vcn : 0 .. MaxVcn, end_vcn : 0 .. MaxVcn] : r.start_vcn <= r.end_vcn}
Fragment(start, runs) == [start_vcn |-> start, data_runs |-> runs]

\* a resident content is told apart by its length
Contents == {[k \in 1 .. n |-> 0] : n \in 0 .. MaxContentLen}

\* the attributes handed to add_data_attribute (header fields and content)
NonResidentData(name) ==
    {[attr_type_id |-> "DATA", attr_name |-> name, non_resident |-> TRUE,
      start_vcn |-> r.start_vcn, end_vcn |-> r.end_vcn,
      curr_sstream |-> c, alloc_sstream |-> 2 * c, data_runs |-> r,
      content_len |-> 0, content |-> <<>>] :
        r \in RunLists, c \in 0 .. MaxSize}

ResidentData(name) ==
    {[attr_type_id |-> "DATA", attr_name |-> name, non_resident |-> FALSE,
      start_vcn |-> 0, end_vcn |-> 0, curr_sstream |-> 0, alloc_sstream |-> 0,
      data_runs |-> [start_vcn |-> 0, end_vcn |-> 0],
      content_len |-> Len(c), content |-> c] : c \in Contents}

DataAttrs(name) == NonResidentData(name) \cup ResidentData(name)

\* a resident attribute of another type (FILE_NAME)
OtherAttrs(name) ==
    {[a EXCEPT !.attr_type_id = "FILE_NAME"] : a \in ResidentData(name)}

\* Datastream.__init__
Datastream(name) ==
    [name |-> name, size |-> 0, alloc_size |-> 0, cluster_count |-> 0,
     has_data_runs |-> FALSE,      \* FALSE: _data_runs is None
     data_runs |-> <<>>,
     has_content |-> FALSE,        \* FALSE: _content is None
     content |-> <<>>,
     data_runs_sorted |-> FALSE]

\* Datastream._is_resident
is_resident(self) == ~self.has_data_runs

\* list.sort(key=itemgetter(0)): stable sort by start VCN
RECURSIVE InsertByKey(_, _)
InsertByKey(sorted, x) ==
    IF sorted = <<>> THEN <<x>>
    ELSE IF Head(sorted).start_vcn <= x.start_vcn
         THEN <<Head(sorted)>> \o InsertByKey(Tail(sorted), x)
         ELSE <<x>> \o sorted

RECURSIVE SortByStartVcn(_)
SortByStartVcn(l) ==
    IF l = <<>> THEN <<>>
    ELSE InsertByKey(SortByStartVcn(SubSeq(l, 1, Len(l) - 1)), l[Len(l)])

\* the checks at the head of add_data_attribute: TRUE when it raises
AddDataAttributeRejects(self, data_attr) ==
    \/ data_attr.attr_type_id # "DATA"
    \/ data_attr.attr_name # self.name

NonResidentAdd_KeepSortedBit(self, nonr_header) ==
    [self EXCEPT
        !.has_data_runs = TRUE,
        !.cluster_count = IF nonr_header.end_vcn > @ THEN nonr_header.end_vcn ELSE @,
        !.size = IF nonr_header.start_vcn = 0 THEN nonr_header.curr_sstream ELSE @,
        !.alloc_size = IF nonr_header.start_vcn = 0 THEN nonr_header.alloc_sstream ELSE @,
        !.data_runs = Append(@, Fragment(nonr_header.start_vcn, nonr_header.data_runs))]

\* add_data_attribute, non-resident branch (lines 380-390)
NonResidentAdd(self, nonr_header) ==
    [self EXCEPT
        !.has_data_runs = TRUE,
        !.cluster_count = IF nonr_header.end_vcn > @ THEN nonr_header.end_vcn ELSE @,
        !.size = IF nonr_header.start_vcn = 0 THEN nonr_header.curr_sstream ELSE @,
        !.alloc_size = IF nonr_header.start_vcn = 0 THEN nonr_header.alloc_sstream ELSE @,
        !.data_runs = Append(@, Fragment(nonr_header.start_vcn, nonr_header.data_runs)),
        !.data_runs_sorted = FALSE]

\* add_data_attribute, resident branch (lines 391-395)
ResidentAdd(self, data_attr) ==
    [self EXCEPT
        !.size = data_attr.content_len,
        !.alloc_size = data_attr.content_len,
        !.has_content = TRUE,
        !.content = data_attr.content]

\* Datastream.add_data_attribute on an accepted attribute
add_data_attribute(self, data_attr) ==
    IF data_attr.non_resident THEN NonResidentAdd(self, data_attr)
    ELSE ResidentAdd(self, data_attr)

AddFromDatastreamRejects_NoResidentCheck(self, source_ds) ==
    source_ds.name # self.name

\* the checks at the head of add_from_datastream: TRUE when it raises
AddFromDatastreamRejects(self, source_ds) ==
    \/ source_ds.name # self.name
    \/ ~self.has_data_runs

\* the merge with cluster_count taken from the source without comparison
add_from_datastream_TakesCount(self, source_ds) ==
    LET s1 == [self EXCEPT !.cluster_count = source_ds.cluster_count]
        s2 == IF s1.size = 0 /\ source_ds.size # 0
              THEN [s1 EXCEPT !.size = source_ds.size, !.alloc_size = source_ds.alloc_size]
              ELSE s1
    IN IF source_ds.has_data_runs /\ source_ds.data_runs # <<>>
       THEN [s2 EXCEPT !.data_runs = @ \o source_ds.data_runs,
                       !.data_runs_sorted = FALSE]
       ELSE s2

\* Datastream.add_from_datastream past its checks (lines 405-412)
add_from_datastream(self, source_ds) ==
    LET s1 == IF self.cluster_count < source_ds.cluster_count
              THEN [self EXCEPT !.cluster_count = source_ds.cluster_count]
              ELSE self
        s2 == IF s1.size = 0 /\ source_ds.size # 0
              THEN [s1 EXCEPT !.size = source_ds.size, !.alloc_size = source_ds.alloc_size]
              ELSE s1
    IN IF source_ds.has_data_runs /\ source_ds.data_runs # <<>>
       THEN [s2 EXCEPT !.data_runs = @ \o source_ds.data_runs,
                       !.data_runs_sorted = FALSE]
       ELSE s2

\* Datastream._get_dataruns past its check: the object after the call
get_dataruns(self) ==
    IF ~self.data_runs_sorted
    THEN [self EXCEPT !.data_runs = SortByStartVcn(@), !.data_runs_sorted = TRUE]
    ELSE self

\* the list comprehension returned by _get_dataruns
RunsOf(self) == [k \in 1 .. Len(self.data_runs) |-> self.data_runs[k].data_runs]

\* The Datastream objects an extension entry can hold for a name: a fresh
\* Datastream to which the entry's DATA attributes of that name were added
\* (MFTEntry._add_datastream), possibly read since.
RECURSIVE BuildStream(_, _)
BuildStream(name, attrs) ==
    IF attrs = <<>> THEN Datastream(name)
    ELSE add_data_attribute(BuildStream(name, SubSeq(attrs, 1, Len(attrs) - 1)),
                            attrs[Len(attrs)])

SourceStreams ==
    UNION {{BuildStream(n, as) : as \in UNION {[1 .. k -> DataAttrs(n)] : k \in 1 .. MaxSrcAttrs}} :
            n \in Names}

EmptyBag == [r \in RunLists |-> 0]
BagAdd(bag, r) == [bag EXCEPT ![r] = @ + 1]
RECURSIVE BagOfFragments(_)
BagOfFragments(frags) ==
    IF frags = <<>> THEN EmptyBag
    ELSE BagAdd(BagOfFragments(Tail(frags)), Head(frags).data_runs)

\* stream.add_data_attribute(data_attr)
AddDataAttribute(data_attr) ==
    /\ ds_call # "idle"
    /\ Len(ds.data_runs) < MaxFrags
    /\ ds_call' = "add_data_attribute"
    /\ ds_read' = <<>>
    /\ ds_reordered' = FALSE
    /\ IF AddDataAttributeRejects(ds, data_attr)
       THEN /\ ds_result' = "DataStreamError"
            /\ UNCHANGED <<ds, ds_added>>
       ELSE /\ ds_result' = "ok"
            /\ ds' = add_data_attribute(ds, data_attr)
            /\ ds_added' = IF data_attr.non_resident
                           THEN BagAdd(ds_added, data_attr.data_runs) ELSE ds_added
    /\ UNCHANGED <<mft_vars, fx_vars, en_vars, fn_vars, pt_vars, tm_vars, sz_vars, dr_vars, wk_vars, al_vars>>

\* dest_stream.add_from_datastream(stream)
AddFromDatastream(source_ds) ==
    /\ ds_call # "idle"
    /\ Len(ds.data_runs) + Len(source_ds.data_runs) <= MaxFrags
    /\ ds_call' = "add_from_datastream"
    /\ ds_read' = <<>>
    /\ ds_reordered' = FALSE
    /\ IF AddFromDatastreamRejects(ds, source_ds)
       THEN /\ ds_result' = "DataStreamError"
            /\ UNCHANGED <<ds, ds_added>>
       ELSE /\ ds_result' = "ok"
            /\ ds' = add_from_datastream(ds, source_ds)
            /\ ds_added' = [r \in RunLists |-> ds_added[r] + BagOfFragments(source_ds.data_runs)[r]]
    /\ UNCHANGED <<mft_vars, fx_vars, en_vars, fn_vars, pt_vars, tm_vars, sz_vars, dr_vars, wk_vars, al_vars>>

\* a read of the property stream.dataruns
ReadDataruns ==
    /\ ds_call # "idle"
    /\ ds_call' = "dataruns"
    /\ IF ~ds.has_data_runs
       THEN /\ ds_result' = "DataStreamError"
            /\ ds_read' = <<>>
            /\ ds_reordered' = FALSE
            /\ UNCHANGED ds
       ELSE /\ ds_result' = "ok"
            /\ ds' = get_dataruns(ds)
            /\ ds_read' = RunsOf(ds')
            /\ ds_reordered' = (ds'.data_runs # ds.data_runs)
    /\ UNCHANGED ds_added
    /\ UNCHANGED <<mft_vars, fx_vars, en_vars, fn_vars, pt_vars, tm_vars, sz_vars, dr_vars, wk_vars, al_vars>>

DsIdle ==
    /\ ds = Datastream("")
    /\ ds_call = "idle"
    /\ ds_result = "none"
    /\ ds_read = <<>>
    /\ ds_added = EmptyBag
    /\ ds_reordered = FALSE

(***************************************************************************)
(* MFTEntry: attribute walk, Datastream normalisation, merge of extensions *)
(***************************************************************************)
\* The attributes an entry's attribute area can hold at the walker's offset:
\* DATA attributes (resident and non-resident) of both names, a FILE_NAME
\* attribute, and a FILE_NAME attribute whose header check (HeaderError) or
\* content decoder (ContentError) raises.
FileNameAttrs == {a \in OtherAttrs("") : a.content_len = 0}

EntryAttrs ==
    UNION {{a \in NonResidentData(n) : a.curr_sstream \in {0, MaxSize}} \cup ResidentData(n) :
            n \in Names}
    \cup FileNameAttrs

EntryItems ==
    {[attr |-> a, raises |-> "none"] : a \in EntryAttrs}
    \cup {[attr |-> a, raises |-> e] : a \in FileNameAttrs, e \in {"HeaderError", "ContentError"}}

\* MFTEntry._find_datastream: position of the stream of that name, 0 for None
find_datastream(data_streams, name) ==
    IF \E k \in 1 .. Len(data_streams) : data_streams[k].name = name
    THEN CHOOSE k \in 1 .. Len(data_streams) :
            /\ data_streams[k].name = name
            /\ \A j \in 1 .. k - 1 : data_streams[j].name # name
    ELSE 0

\* MFTEntry._add_datastream
add_datastream(data_streams, data_attr) ==
    LET k == find_datastream(data_streams, data_attr.attr_name)
    IN IF k = 0
       THEN Append(data_streams, add_data_attribute(Datastream(data_attr.attr_name), data_attr))
       ELSE [data_streams EXCEPT ![k] = add_data_attribute(@, data_attr)]

\* MFTEntry.merge_entries, the loop over source_entry.data_streams from
\* position i on; error is the DataStreamError of add_from_datastream
RECURSIVE MergeStreams(_, _, _)
MergeStreams(data_streams, source_streams, i) ==
    IF i > Len(source_streams) THEN [data_streams |-> data_streams, error |-> "none"]
    ELSE LET stream == source_streams[i]
             k == find_datastream(data_streams, stream.name)
         IN IF k = 0
            THEN MergeStreams(Append(data_streams, stream), source_streams, i + 1)
            ELSE IF AddFromDatastreamRejects(data_streams[k], stream)
                 THEN [data_streams |-> data_streams, error |-> "DataStreamError"]
                 ELSE MergeStreams([data_streams EXCEPT ![k] = add_from_datastream(@, stream)],
                                   source_streams, i + 1)

\* One iteration of the while loop of _load_attributes on the entry being
\* read (the base entry, or the temp_entry of an extension): the attribute at
\* the offset is decoded and filed; an exception of the decoder is not caught
\* anywhere up to MFT.__getitem__.
LoadAttribute(item) ==
    /\ en_pc = "load"
    /\ Len(en_walked) < MaxAttrs
    /\ en_walked' = Append(en_walked, [entry |-> en_loading, attr |-> item.attr,
                                       raises |-> item.raises])
    /\ IF item.raises # "none"
       THEN /\ en_pc' = item.raises
            /\ UNCHANGED <<en_attrs, en_streams, tmp_attrs, tmp_streams>>
       ELSE /\ UNCHANGED en_pc
            /\ IF item.attr.attr_type_id # "DATA"
               THEN IF en_loading = 0
                    THEN /\ en_attrs' = Append(en_attrs, item.attr)
                         /\ UNCHANGED <<en_streams, tmp_attrs, tmp_streams>>
                    ELSE /\ tmp_attrs' = Append(tmp_attrs, item.attr)
                         /\ UNCHANGED <<en_attrs, en_streams, tmp_streams>>
               ELSE IF en_loading = 0
                    THEN /\ en_streams' = add_datastream(en_streams, item.attr)
                         /\ UNCHANGED <<en_attrs, tmp_attrs, tmp_streams>>
                    ELSE /\ tmp_streams' = add_datastream(tmp_streams, item.attr)
                         /\ UNCHANGED <<en_attrs, en_streams, tmp_attrs>>
    /\ UNCHANGED <<en_loading, en_extras, en_read>>
    /\ UNCHANGED <<mft_vars, fx_vars, ds_vars, fn_vars, pt_vars, tm_vars, sz_vars, dr_vars, wk_vars, al_vars>>

\* The walker meets the end marker 0xFFFFFFFF.  _read_full_entry then merges
\* a finished extension into the entry (merge_entries) and goes on to the
\* next extension, or returns the entry.
EndOfAttributes ==
    /\ en_pc = "load"
    /\ LET merged == MergeStreams(en_streams, tmp_streams, 1)
       IN /\ IF en_loading = 0
             THEN UNCHANGED <<en_attrs, en_streams>>
             ELSE /\ en_attrs' = en_attrs \o tmp_attrs
                  /\ en_streams' = merged.data_streams
          /\ en_pc' = IF en_loading # 0 /\ merged.error # "none" THEN merged.error
                      ELSE IF en_loading = en_extras THEN "done" ELSE "load"
          /\ en_loading' = IF en_loading # 0 /\ merged.error # "none" THEN en_loading
                           ELSE IF en_loading = en_extras THEN en_loading ELSE en_loading + 1
    /\ tmp_attrs' = <<>>
    /\ tmp_streams' = <<>>
    /\ UNCHANGED <<en_extras, en_walked, en_read>>
    /\ UNCHANGED <<mft_vars, fx_vars, ds_vars, fn_vars, pt_vars, tm_vars, sz_vars, dr_vars, wk_vars, al_vars>>

\* Datastream._get_content: is_resident is a property, so self.is_resident
\* is already a bool and the call self.is_resident() raises TypeError
get_content(self) == [outcome |-> "TypeError", value |-> <<>>]

\* entry.get_datastream(name).content on the entry returned by get(i)
ReadContent(name) ==
    /\ en_pc = "done"
    /\ en_read.call = "none"
    /\ LET k == find_datastream(en_streams, name)
       IN en_read' = IF k = 0
                     THEN [call |-> "content", name |-> name,
                           outcome |-> "AttributeError", value |-> <<>>]
                     ELSE [call |-> "content", name |-> name,
                           outcome |-> get_content(en_streams[k]).outcome,
                           value |-> get_content(en_streams[k]).value]
    /\ UNCHANGED <<en_pc, en_loading, en_extras, en_walked, en_attrs, en_streams,
                   tmp_attrs, tmp_streams>>
    /\ UNCHANGED <<mft_vars, fx_vars, ds_vars, fn_vars, pt_vars, tm_vars, sz_vars, dr_vars, wk_vars, al_vars>>

NoRead == [call |-> "none", name |-> "", outcome |-> "none", value |-> <<>>]

EnIdle ==
    /\ en_pc = "idle"
    /\ en_loading = 0
    /\ en_extras = 0
    /\ en_walked = <<>>
    /\ en_attrs = <<>>
    /\ en_streams = <<>>
    /\ tmp_attrs = <<>>
    /\ tmp_streams = <<>>
    /\ en_read = NoRead

(***************************************************************************)
(* MFTEntry.get_main_filename_attr                                         *)
(***************************************************************************)
\* (parent_ref, parent_seq) of a FILE_NAME content: the selector only tests
\* them for equality, so three pairs are told apart (another record, and
\* another sequence number of the same record)
ParentKeys == {<<5, 1>>, <<5, MaxSeq>>, <<1, 1>>}

\* NameType values: POSIX = 0, WIN32 = 1, DOS = 2, WIN32_DOS = 3
NameTypes == 0 .. 3

\* the FILE_NAME attributes of an entry: header.attr_id and, of the content,
\* parent_ref, parent_seq and name_type.value
FileNames ==
    {[attr_id |-> i, parent_ref |-> p[1], parent_seq |-> p[2], name_type |-> t] :
        i \in 1 .. MaxAttrId, p \in ParentKeys, t \in NameTypes}

\* first loop (lines 657-660): the position of the first attribute with the
\* lowest attr_id; main_fn = 0 stands for None
RECURSIVE LowestAttrId(_, _, _, _)
LowestAttrId(fn_attrs, i, main_fn, high_attr_id) ==
    IF i > Len(fn_attrs) THEN main_fn
    ELSE IF fn_attrs[i].attr_id < high_attr_id
         THEN LowestAttrId(fn_attrs, i + 1, i, fn_attrs[i].attr_id)
         ELSE LowestAttrId(fn_attrs, i + 1, main_fn, high_attr_id)

RECURSIVE BestNameType_AnyParent(_, _, _)
BestNameType_AnyParent(fn_attrs, i, main_fn) ==
    IF i > Len(fn_attrs) THEN main_fn
    ELSE IF fn_attrs[i].name_type < fn_attrs[main_fn].name_type
         THEN BestNameType_AnyParent(fn_attrs, i + 1, i)
         ELSE BestNameType_AnyParent(fn_attrs, i + 1, main_fn)

\* second loop (lines 663-667): an attribute of the same parent with a lower
\* name type replaces main_fn
RECURSIVE BestNameType(_, _, _)
BestNameType(fn_attrs, i, main_fn) ==
    IF i > Len(fn_attrs) THEN main_fn
    ELSE IF /\ fn_attrs[main_fn].parent_ref = fn_attrs[i].parent_ref
            /\ fn_attrs[main_fn].parent_seq = fn_attrs[i].parent_seq
            /\ fn_attrs[i].name_type < fn_attrs[main_fn].name_type
         THEN BestNameType(fn_attrs, i + 1, i)
         ELSE BestNameType(fn_attrs, i + 1, main_fn)

\* get_main_filename_attr on the list get_attributes(FILE_NAME) returns (the
\* empty list stands for None: the type has no key in entry.attrs); the
\* result is the position of the attribute returned, 0 for None.
\* high_attr_id starts at 0xFFFFFFFF, above every 16-bit attr_id; 2^31 - 1
\* takes its place here.
get_main_filename_attr(fn_attrs) ==
    IF fn_attrs = <<>> THEN 0
    ELSE BestNameType(fn_attrs, 1, LowestAttrId(fn_attrs, 1, 0, 2147483647))

\* entry.get_main_filename_attr()
GetMainFilenameAttr ==
    /\ fn_pc = "start"
    /\ fn_pc' = "done"
    /\ entry_main_fn' = get_main_filename_attr(entry_fn_attrs)
    /\ UNCHANGED entry_fn_attrs
    /\ UNCHANGED <<mft_vars, fx_vars, ds_vars, en_vars, pt_vars, tm_vars, sz_vars, dr_vars, wk_vars, al_vars>>

FnIdle ==
    /\ fn_pc = "idle"
    /\ entry_fn_attrs = <<>>
    /\ entry_main_fn = 0

(***************************************************************************)
(* MFT.get_entry_full_path                                                 *)
(***************************************************************************)
PathSlots == 0 .. NumPathSlots - 1

\* root_id = 5
root_id == 5

\* What the loaded MFT holds for a record number: an empty slot (in
\* _empty_entries), an extension (in _entries_child_parent), or a base entry
\* with its header sequence number and its FILE_NAME attributes.  The name
\* in a FILE_NAME content is the number of the record that carries it.
PathFileNames(i) ==
    {<<>>}
    \cup {<<[attr_id |-> 1, parent_ref |-> p, parent_seq |-> q, name_type |-> 1, name |-> i]>> :
            p \in PathSlots \cup {root_id}, q \in SeqNumbers}

PathRecords(i) ==
    {[kind |-> "empty", seq_number |-> 0, fn_attrs |-> <<>>],
     [kind |-> "child", seq_number |-> 0, fn_attrs |-> <<>>]}
    \cup {[kind |-> "base", seq_number |-> s, fn_attrs |-> f] :
            s \in SeqNumbers, f \in PathFileNames(i)}

\* what record 5, the root directory, holds: an empty slot, or a base entry
\* of either sequence number, without a FILE_NAME attribute or with the one
\* that names the root its own parent
RootRecords ==
    {[kind |-> "empty", seq_number |-> 0, fn_attrs |-> <<>>]}
    \cup UNION {{[kind |-> "base", seq_number |-> s, fn_attrs |-> <<>>],
                 [kind |-> "base", seq_number |-> s,
                  fn_attrs |-> <<[attr_id |-> 1, parent_ref |-> root_id, parent_seq |-> s,
                                  name_type |-> 1, name |-> root_id]>>]} :
                s \in SeqNumbers}

None == -1

\* MFT.__getitem__ on the loaded MFT: TRUE when it raises ValueError
GetItemRaises(index) == pt_mft[index].kind \in {"empty", "child"}

\* entry.get_main_filename_attr() of the entry self[index] returns: the
\* attribute, or <<>> for None
MainFilename(index) ==
    LET fn_attrs == pt_mft[index].fn_attrs
        k == get_main_filename_attr(fn_attrs)
    IN IF k = 0 THEN <<>> ELSE <<fn_attrs[k]>>

JoinReversed_InOrder(name_list) == name_list

\* "\\".join(reversed(names)): the names, last appended first
JoinReversed(name_list) == [k \in 1 .. Len(name_list) |-> name_list[Len(name_list) + 1 - k]]

PathStart_ZeroIsANumber(entry_number, entry) ==
    /\ pt_pc = "start"
    /\ pt_entry_number' = entry_number
    /\ pt_entry' = entry
    /\ UNCHANGED <<pt_mft, pt_visited, pt_path>>
    /\ IF (entry_number = None /\ entry = None) \/ (entry_number # None /\ entry # None)
       THEN /\ pt_pc' = "MFTError"
            /\ UNCHANGED <<working_entry, names, pt_index, pt_seq, is_orphan>>
       ELSE IF entry_number # None /\ GetItemRaises(entry_number)
       THEN /\ pt_pc' = "ValueError"
            /\ UNCHANGED <<working_entry, names, pt_index, pt_seq, is_orphan>>
       ELSE LET w == IF entry_number # None THEN entry_number ELSE entry
                fn_attr == MainFilename(w)
            IN /\ working_entry' = w
               /\ IF fn_attr = <<>>
                  THEN /\ pt_pc' = "EntryError"
                       /\ UNCHANGED <<names, pt_index, pt_seq, is_orphan>>
                  ELSE /\ pt_pc' = "loop"
                       /\ names' = <<fn_attr[1].name>>
                       /\ pt_index' = fn_attr[1].parent_ref
                       /\ pt_seq' = fn_attr[1].parent_seq
                       /\ is_orphan' = FALSE
    /\ UNCHANGED <<mft_vars, fx_vars, ds_vars, en_vars, fn_vars, tm_vars, sz_vars, dr_vars, wk_vars, al_vars>>

\* lines 816-835: argument handling, the working entry and its main filename
PathStart(entry_number, entry) ==
    /\ pt_pc = "start"
    /\ pt_entry_number' = entry_number
    /\ pt_entry' = entry
    /\ UNCHANGED <<pt_mft, pt_visited, pt_path>>
    /\ IF (entry_number = None /\ entry = None) \/ (entry_number # None /\ entry # None)
       THEN /\ pt_pc' = "MFTError"
            /\ UNCHANGED <<working_entry, names, pt_index, pt_seq, is_orphan>>
       ELSE IF entry_number # None /\ entry_number # 0 /\ GetItemRaises(entry_number)
       THEN /\ pt_pc' = "ValueError"
            /\ UNCHANGED <<working_entry, names, pt_index, pt_seq, is_orphan>>
       ELSE IF entry_number = 0      \* 'if entry_number:' is false for 0, 'elif entry:' for None
       THEN /\ pt_pc' = "MFTError"
            /\ UNCHANGED <<working_entry, names, pt_index, pt_seq, is_orphan>>
       ELSE LET w == IF entry_number # None THEN entry_number ELSE entry
                fn_attr == MainFilename(w)
            IN /\ working_entry' = w
               /\ IF fn_attr = <<>>
                  THEN /\ pt_pc' = "EntryError"
                       /\ UNCHANGED <<names, pt_index, pt_seq, is_orphan>>
                  ELSE /\ pt_pc' = "loop"
                       /\ names' = <<fn_attr[1].name>>
                       /\ pt_index' = fn_attr[1].parent_ref
                       /\ pt_seq' = fn_attr[1].parent_seq
                       /\ is_orphan' = FALSE
    /\ UNCHANGED <<mft_vars, fx_vars, ds_vars, en_vars, fn_vars, tm_vars, sz_vars, dr_vars, wk_vars, al_vars>>

SeqDiffers_Never(seq, index) == FALSE

\* seq != parent_entry.header.seq_number
SeqDiffers(seq, index) == seq # pt_mft[index].seq_number

PathStep_ComparesRootSeq ==
    /\ pt_pc = "loop"
    /\ Len(names) <= MaxPathSteps
    /\ UNCHANGED <<pt_mft, pt_entry_number, pt_entry, working_entry>>
    /\ IF pt_index = root_id /\ ~GetItemRaises(root_id) /\ ~SeqDiffers(pt_seq, root_id)
       THEN /\ pt_pc' = "returned"
            /\ pt_path' = JoinReversed(names)
            /\ UNCHANGED <<names, pt_index, pt_seq, is_orphan, pt_visited>>
       ELSE /\ pt_visited' = Append(pt_visited, pt_index)
            /\ IF GetItemRaises(pt_index)          \* except ValueError
               THEN /\ is_orphan' = TRUE
                    /\ pt_pc' = "returned"
                    /\ pt_path' = JoinReversed(names)
                    /\ UNCHANGED <<names, pt_index, pt_seq>>
               ELSE IF SeqDiffers(pt_seq, pt_index)
               THEN /\ is_orphan' = TRUE
                    /\ pt_pc' = "returned"
                    /\ pt_path' = JoinReversed(names)
                    /\ UNCHANGED <<names, pt_index, pt_seq>>
               ELSE IF MainFilename(pt_index) = <<>>
               THEN /\ pt_pc' = "AttributeError"   \* parent_fn_attr is None
                    /\ UNCHANGED <<names, pt_index, pt_seq, is_orphan, pt_path>>
               ELSE /\ pt_index' = MainFilename(pt_index)[1].parent_ref
                    /\ pt_seq' = MainFilename(pt_index)[1].parent_seq
                    /\ names' = Append(names, MainFilename(pt_index)[1].name)
                    /\ UNCHANGED <<pt_pc, is_orphan, pt_path>>
    /\ UNCHANGED <<mft_vars, fx_vars, ds_vars, en_vars, fn_vars, tm_vars, sz_vars, dr_vars, wk_vars, al_vars>>

\* lines 837-852: the loop test and one iteration of the while loop, or the
\* return once the loop is left
PathStep ==
    /\ pt_pc = "loop"
    /\ Len(names) <= MaxPathSteps
    /\ UNCHANGED <<pt_mft, pt_entry_number, pt_entry, working_entry>>
    /\ IF pt_index = root_id
       THEN /\ pt_pc' = "returned"
            /\ pt_path' = JoinReversed(names)
            /\ UNCHANGED <<names, pt_index, pt_seq, is_orphan, pt_visited>>
       ELSE /\ pt_visited' = Append(pt_visited, pt_index)
            /\ IF GetItemRaises(pt_index)          \* except ValueError
               THEN /\ is_orphan' = TRUE
                    /\ pt_pc' = "returned"
                    /\ pt_path' = JoinReversed(names)
                    /\ UNCHANGED <<names, pt_index, pt_seq>>
               ELSE IF SeqDiffers(pt_seq, pt_index)
               THEN /\ is_orphan' = TRUE
                    /\ pt_pc' = "returned"
                    /\ pt_path' = JoinReversed(names)
                    /\ UNCHANGED <<names, pt_index, pt_seq>>
               ELSE IF MainFilename(pt_index) = <<>>
               THEN /\ pt_pc' = "AttributeError"   \* parent_fn_attr is None
                    /\ UNCHANGED <<names, pt_index, pt_seq, is_orphan, pt_path>>
               ELSE /\ pt_index' = MainFilename(pt_index)[1].parent_ref
                    /\ pt_seq' = MainFilename(pt_index)[1].parent_seq
                    /\ names' = Append(names, MainFilename(pt_index)[1].name)
                    /\ UNCHANGED <<pt_pc, is_orphan, pt_path>>
    /\ UNCHANGED <<mft_vars, fx_vars, ds_vars, en_vars, fn_vars, tm_vars, sz_vars, dr_vars, wk_vars, al_vars>>

PtIdle ==
    /\ pt_pc = "idle"
    /\ pt_mft = <<>>
    /\ pt_entry_number = None
    /\ pt_entry = None
    /\ working_entry = None
    /\ names = <<>>
    /\ pt_index = None
    /\ pt_seq = None
    /\ is_orphan = FALSE
    /\ pt_visited = <<>>
    /\ pt_path = <<>>

(***************************************************************************)
(* convert_filetime and Timestamps.create_from_binary                      *)
(***************************************************************************)
\* struct.Struct("<4Q"): four fields of eight bytes each
QWordLen == 8

QWordCount == 4

\* the FILETIME values the fields take: zero, a value that is not a whole
\* number of microseconds, a whole number of them, a value of two bytes
FileTimes == {0, 15, MaxFiletime, 256}

\* the n bytes of v, least significant first (the layout "<Q" reads)
RECURSIVE PackQ(_, _)
PackQ(v, n) ==
    IF n = 0 THEN <<>> ELSE <<v % 256>> \o PackQ(v \div 256, n - 1)

\* the binary streams given to create_from_binary: four fields, and streams
\* of one field only (a wrong size)
TimestampStreams ==
    {PackQ(a, QWordLen) \o PackQ(b, QWordLen) \o PackQ(c, QWordLen) \o PackQ(d, QWordLen) :
        a \in FileTimes, b \in FileTimes, c \in FileTimes, d \in FileTimes}
    \cup {PackQ(a, QWordLen) : a \in FileTimes}

\* one little-endian field: bytes lo..hi of the stream
RECURSIVE UnpackQ(_, _, _)
UnpackQ(binary_stream, lo, hi) ==
    IF hi < lo THEN 0
    ELSE binary_stream[lo] + 256 * UnpackQ(binary_stream, lo + 1, hi)

\* repr.unpack(binary_stream)
unpack(binary_stream) ==
    [k \in 1 .. QWordCount |->
        UnpackQ(binary_stream, QWordLen * (k - 1) + 1, QWordLen * k)]

\* timedelta(microseconds=n/d): the quotient rounded to a whole number of
\* microseconds, a tie going to the even neighbour
RoundHalfEven(n, d) ==
    LET q == n \div d
        r == n % d
    IN  IF 2 * r < d THEN q
        ELSE IF 2 * r > d THEN q + 1
        ELSE IF q % 2 = 0 THEN q ELSE q + 1

\* _datetime(1601, 1, 1) + _timedelta(microseconds=(filetime/10)): a datetime
\* is its distance from 1601-01-01T00:00:00 in microseconds and its tzinfo;
\* _datetime(1601, 1, 1) has no tzinfo and the sum keeps that
convert_filetime(filetime) ==
    [micro |-> RoundHalfEven(filetime, 10), tzinfo |-> "None"]

\* datetime == datetime, as assertEqual applies it: a datetime without tzinfo
\* and one with tzinfo are never equal; two of the same kind are equal when
\* they are the same instant
datetime_eq(a, b) ==
    /\ a.tzinfo = b.tzinfo
    /\ a.micro = b.micro

\* convert_filetime(filetime) called on its own
ConvertFiletime(filetime) ==
    /\ tm_pc = "start"
    /\ tm_pc' = "converted"
    /\ tm_filetime' = filetime
    /\ tm_converted' = convert_filetime(filetime)
    /\ UNCHANGED <<tm_stream, tm_created, tm_changed, tm_mft_changed, tm_accessed>>
    /\ UNCHANGED <<mft_vars, fx_vars, ds_vars, en_vars, fn_vars, pt_vars, sz_vars, dr_vars, wk_vars, al_vars>>

\* Timestamps.create_from_binary(binary_stream)
CreateFromBinary ==
    /\ tm_pc = "start"
    /\ IF Len(tm_stream) # QWordCount * QWordLen
       THEN /\ tm_pc' = "ContentError"
            /\ UNCHANGED <<tm_created, tm_changed, tm_mft_changed, tm_accessed>>
       ELSE LET content == unpack(tm_stream)
            IN  /\ tm_pc' = "returned"
                /\ tm_created' = convert_filetime(content[1])
                /\ tm_changed' = convert_filetime(content[2])
                /\ tm_mft_changed' = convert_filetime(content[3])
                /\ tm_accessed' = convert_filetime(content[4])
    /\ UNCHANGED <<tm_stream, tm_filetime, tm_converted>>
    /\ UNCHANGED <<mft_vars, fx_vars, ds_vars, en_vars, fn_vars, pt_vars, sz_vars, dr_vars, wk_vars, al_vars>>

TmIdle ==
    /\ tm_pc = "idle"
    /\ tm_stream = <<>>
    /\ tm_filetime = None
    /\ tm_converted = None
    /\ tm_created = None
    /\ tm_changed = None
    /\ tm_mft_changed = None
    /\ tm_accessed = None

(***************************************************************************)
(* MFT._find_mft_size                                                      *)
(***************************************************************************)
\* the members of MftSignature: four bytes each, a byte being its letter
sigs == {<<"F", "I", "L", "E">>, <<"B", "A", "A", "D">>, <<"I", "N", "D", "X">>}

\* a candidate order that is not the one of the code: by increasing size
sizes_Ascending == <<1, 256, 512, 1024, 2048, 4096, 8192>>

sizes == <<1024, 4096, 512, 2048, 256, 8192, 1>>

\* the bytes that occur in a signature
Letters == {s[k] : s \in sigs, k \in 1 .. 4}

\* what the source holds at offsets 0..3: a signature, four bytes that are
\* none, or less than four bytes (an empty source)
FirstWords == sigs \cup {<<"F", "I", "L", "X">>, <<>>}

\* the sources: the bytes at offsets 0..4 (head; fewer when the source ends
\* there), and for every candidate size above 4 what read(4) returns at that
\* offset (windows): a signature, four other bytes, or nothing when the
\* source ends before the offset
SizeHeads == {w \o <<c>> : w \in FirstWords \ {<<>>}, c \in Letters} \cup FirstWords

WindowWords == {<<"F", "I", "L", "E">>, <<"E", "L", "I", "F">>, <<>>}

WindowOffsets == {sizes[i] : i \in 1 .. Len(sizes)} \ {1}

\* file_object.seek(offset, 0); file_object.read(4)
ReadAt(head, windows, offset) ==
    IF offset + 4 <= Len(head) THEN SubSeq(head, offset + 1, offset + 4)
    ELSE IF offset < Len(head) THEN SubSeq(head, offset + 1, Len(head))
    ELSE IF offset \in DOMAIN windows THEN windows[offset]
    ELSE <<>>

\* the for loop from its i-th candidate on: the value size has when the loop
\* ends, by the break or by running out of candidates
RECURSIVE ScanSizes(_, _, _)
ScanSizes(head, windows, i) ==
    LET size == sizes[i]
        second_sig == ReadAt(head, windows, size)
    IN  IF second_sig \in sigs THEN size
        ELSE IF i = Len(sizes) THEN size
        ELSE ScanSizes(head, windows, i + 1)

\* MFT._find_mft_size(file_object)
FindMftSize ==
    /\ sz_pc = "start"
    /\ LET first_sig == ReadAt(sz_head, sz_windows, 0)
       IN  IF first_sig \notin sigs
           THEN /\ sz_pc' = "MFTError"
                /\ sz_pos' = Len(first_sig)
                /\ UNCHANGED sz_size
           ELSE LET size == ScanSizes(sz_head, sz_windows, 1)
                IN  /\ sz_pos' = 0
                    /\ IF size = 1
                       THEN sz_pc' = "MFTError" /\ UNCHANGED sz_size
                       ELSE sz_pc' = "returned" /\ sz_size' = size
    /\ UNCHANGED <<sz_head, sz_windows>>
    /\ UNCHANGED <<mft_vars, fx_vars, ds_vars, en_vars, fn_vars, pt_vars, tm_vars, dr_vars, wk_vars, al_vars>>

SzIdle ==
    /\ sz_pc = "idle"
    /\ sz_head = <<>>
    /\ sz_windows = <<>>
    /\ sz_pos = 0
    /\ sz_size = 0

(***************************************************************************)
(* DataRuns.__init__ (headers.py)                                          *)
(***************************************************************************)
\* the length fields and the offset fields of the runs of a run list, as the
\* bytes stored: a run with no offset bytes is sparse
LenFields == {<<>>, <<2>>, <<1, 2>>}

OffFields == {<<>>, <<3>>, <<255>>, <<0, 255>>}

\* the runs a run list holds: a run with neither field would have the header
\* byte 0, which ends the list
RunFields ==
    {[len |-> l, off |-> o] : l \in LenFields, o \in OffFields}
        \ {[len |-> <<>>, off |-> <<>>]}

RunFieldLists == UNION {[1 .. n -> RunFields] : n \in 0 .. MaxRuns}

\* the bytes of one run: the header byte (low nibble the number of length
\* bytes, high nibble the number of offset bytes), the length, the offset
RunBytes(run) == <<Len(run.len) + 16 * Len(run.off)>> \o run.len \o run.off

\* the bytes of a run list: its runs, the header byte 0, and one byte of the
\* attribute that follows the list
RECURSIVE RunListBytes(_)
RunListBytes(runs) ==
    IF runs = <<>> THEN <<0, 255>>
    ELSE RunBytes(Head(runs)) \o RunListBytes(Tail(runs))

\* runs_view[a:b]: a slice ends where the view ends
ViewSlice(runs_view, a, b) ==
    LET hi == IF b < Len(runs_view) THEN b ELSE Len(runs_view)
    IN  IF hi <= a THEN <<>> ELSE SubSeq(runs_view, a + 1, hi)

\* int.from_bytes(b, "little", signed=False)
RECURSIVE FromBytesUnsigned(_)
FromBytesUnsigned(b) ==
    IF b = <<>> THEN 0 ELSE Head(b) + 256 * FromBytesUnsigned(Tail(b))

RECURSIVE Pow256(_)
Pow256(n) == IF n = 0 THEN 1 ELSE 256 * Pow256(n - 1)

\* the offset bytes read as an unsigned number
FromBytesSigned_Unsigned(b) == FromBytesUnsigned(b)

\* int.from_bytes(b, "little", signed=True): two's complement on Len(b) bytes
FromBytesSigned(b) ==
    LET u == FromBytesUnsigned(b)
    IN  IF b # <<>> /\ b[Len(b)] >= 128 THEN u - Pow256(Len(b)) ELSE u

\* the while loop of DataRuns.__init__ from the given offset on.  A tuple
\* (dr_length, dr_offset) is <<dr_length, <<dr_offset>>>>, and
\* <<dr_length, <<>>>> when dr_offset is None.  runs_view[offset] past the end
\* of the view raises IndexError.
RECURSIVE ParseRuns(_, _, _, _)
ParseRuns(runs_view, offset, previous_dr_offset, data_runs) ==
    IF offset >= Len(runs_view)
    THEN [outcome |-> "IndexError", data_runs |-> <<>>]
    ELSE IF runs_view[offset + 1] = 0
    THEN [outcome |-> "returned", data_runs |-> data_runs]
    ELSE
        LET header == runs_view[offset + 1]
            length_len == header % 16
            length_offset == header \div 16
            temp_len == offset + 1 + length_len
            dr_length == FromBytesUnsigned(ViewSlice(runs_view, offset + 1, temp_len))
            dr_offset == FromBytesSigned(ViewSlice(runs_view, temp_len, temp_len + length_offset))
                            + previous_dr_offset
        IN  IF length_offset # 0
            THEN ParseRuns(runs_view, offset + 1 + length_len + length_offset, dr_offset,
                           Append(data_runs, <<dr_length, <<dr_offset>>>>))
            ELSE ParseRuns(runs_view, offset + 1 + length_len + length_offset,
                           previous_dr_offset,
                           Append(data_runs, <<dr_length, <<>>>>))

\* DataRuns(runs_view)
DataRunsInit ==
    /\ dr_pc = "start"
    /\ LET r == ParseRuns(dr_view, 0, 0, <<>>)
       IN  /\ dr_pc' = r.outcome
           /\ dr_data_runs' = r.data_runs
    /\ UNCHANGED <<dr_source, dr_view>>
    /\ UNCHANGED <<mft_vars, fx_vars, ds_vars, en_vars, fn_vars, pt_vars, tm_vars, sz_vars, wk_vars, al_vars>>

DrIdle ==
    /\ dr_pc = "idle"
    /\ dr_source = <<>>
    /\ dr_view = <<>>
    /\ dr_data_runs = <<>>

(***************************************************************************)
(* MFTEntry._load_attributes: the walk of one attribute area               *)
(***************************************************************************)
\* The attribute area is a sequence of cells of four bytes.  The first cell
\* of an attribute holds its type id; the cell carries with it the fields of
\* the common header that the walker uses (total length, counted in cells,
\* and name).  0xFFFFFFFF where a type id is expected ends the area.
WalkTypes == {"FILE_NAME", "OBJECT_ID", "DATA"}

EndCell == [attr_type |-> "END", attr_len |-> 0, attr_name |-> ""]

\* what the cells of a content can hold: the bytes of the end marker, or
\* bytes that read as the header of a DATA attribute
ContentCells == {EndCell, [attr_type |-> "DATA", attr_len |-> 1, attr_name |-> "ads1"]}

\* the contents of an attribute: up to MaxAttrLen - 1 cells, all alike
WalkContents ==
    {[k \in 1 .. m |-> x] : m \in 0 .. MaxAttrLen - 1, x \in ContentCells}

\* the attributes of an area: type, name and content; only DATA attributes
\* are named
WalkSourceAttrs ==
    {a \in [attr_type : WalkTypes, attr_name : Names, content : WalkContents] :
        a.attr_type = "DATA" \/ a.attr_name = ""}

\* the cells of one attribute
AttrCells(a) ==
    <<[attr_type |-> a.attr_type, attr_len |-> 1 + Len(a.content),
       attr_name |-> a.attr_name]>> \o a.content

\* the cells of an area: its attributes, the end marker, and what follows it
RECURSIVE AreaCells(_, _)
AreaCells(source, tail) ==
    IF source = <<>> THEN <<EndCell>> \o tail
    ELSE AttrCells(Head(source)) \o AreaCells(Tail(source), tail)

\* what can follow the end marker: nothing, or the cells of an attribute
WalkTails == {<<>>, AttrCells([attr_type |-> "FILE_NAME", attr_name |-> "", content |-> <<>>])}

\* _get_attr_info(attrs_view[offset:]): type, total length and resident flag
\* from the common header
get_attr_info(view, offset) ==
    [attr_type |-> view[offset + 1].attr_type,
     attr_len |-> view[offset + 1].attr_len,
     non_resident |-> FALSE]

\* Attribute.create_from_binary(non_resident, load_dataruns,
\* attrs_view[offset:]) for a resident attribute: the header and the content,
\* which is the slice of the view that the header delimits
AttributeFromBinary(view, offset) ==
    LET header == view[offset + 1]
        last == IF offset + header.attr_len < Len(view)
                THEN offset + header.attr_len ELSE Len(view)
        content == IF last <= offset + 1 THEN <<>> ELSE SubSeq(view, offset + 2, last)
    IN  [attr_type_id |-> header.attr_type, attr_name |-> header.attr_name,
         non_resident |-> FALSE, start_vcn |-> 0, end_vcn |-> 0,
         curr_sstream |-> 0, alloc_sstream |-> 0,
         data_runs |-> [start_vcn |-> 0, end_vcn |-> 0],
         content_len |-> Len(content), content |-> content]

\* self._add_attribute(attr): the list under the type, created when missing
add_attribute(attrs, attr) ==
    [attrs EXCEPT ![attr.attr_type_id] = Append(@, attr)]

\* every decoded attribute is filed in the attribute map, DATA included
FileAttribute_DataInMap(attrs, data_streams, attr) ==
    [attrs |-> add_attribute(attrs, attr),
     data_streams |-> IF attr.attr_type_id # "DATA" THEN data_streams
                      ELSE add_datastream(data_streams, attr)]

\* lines 590-593: a decoded attribute goes to the attribute map unless its
\* type is DATA, and to the Datastream of its name when it is
FileAttribute(attrs, data_streams, attr) ==
    IF attr.attr_type_id # "DATA"
    THEN [attrs |-> add_attribute(attrs, attr), data_streams |-> data_streams]
    ELSE [attrs |-> attrs, data_streams |-> add_datastream(data_streams, attr)]

\* one evaluation of the loop test of _load_attributes and, when it passes,
\* one run of the loop body.  Past the end of the view the slice that is
\* compared is empty, the test passes and _get_attr_info fails on the empty
\* view.
WalkStep ==
    /\ wk_pc = "walk"
    /\ IF wk_offset >= Len(wk_view)
       THEN /\ wk_pc' = "struct.error"
            /\ UNCHANGED <<wk_offset, wk_attrs, wk_streams, wk_parsed>>
       ELSE IF wk_view[wk_offset + 1] = EndCell
       THEN /\ wk_pc' = "done"
            /\ UNCHANGED <<wk_offset, wk_attrs, wk_streams, wk_parsed>>
       ELSE LET info == get_attr_info(wk_view, wk_offset)
                attr == AttributeFromBinary(wk_view, wk_offset)
                filed == FileAttribute(wk_attrs, wk_streams, attr)
            IN  /\ IF info.attr_type \in wk_load_attrs
                   THEN /\ wk_attrs' = filed.attrs
                        /\ wk_streams' = filed.data_streams
                        /\ wk_parsed' = Append(wk_parsed, wk_offset)
                   ELSE UNCHANGED <<wk_attrs, wk_streams, wk_parsed>>
                /\ wk_offset' = wk_offset + info.attr_len
                /\ UNCHANGED wk_pc
    /\ UNCHANGED <<wk_source, wk_tail, wk_view, wk_load_attrs>>
    /\ UNCHANGED <<mft_vars, fx_vars, ds_vars, en_vars, fn_vars, pt_vars, tm_vars, sz_vars, dr_vars, al_vars>>

\* entry.attrs of a new entry: no type has a list yet
NoAttrs == [t \in WalkTypes |-> <<>>]

WkIdle ==
    /\ wk_pc = "idle"
    /\ wk_source = <<>>
    /\ wk_tail = <<>>
    /\ wk_view = <<>>
    /\ wk_load_attrs = {}
    /\ wk_offset = 0
    /\ wk_attrs = NoAttrs
    /\ wk_streams = <<>>
    /\ wk_parsed = <<>>

(***************************************************************************)
(* AttributeList.create_from_binary (attrcontent.py)                       *)
(***************************************************************************)
\* AttributeListEntry._REPR = struct.Struct("<IH2B2QH"): 4+2+1+1+8+8+2 bytes
ReprSize == 26

\* the lengths an entry of the content declares: none, its fixed part, its
\* fixed part and one byte of name
ListEntryLens == {0, ReprSize, ReprSize + 1}

ListSources == UNION {[1 .. n -> ListEntryLens] : n \in 0 .. MaxListEntries}

\* the bytes of one entry: attribute type 0x10 in bytes 0-3, the declared
\* length in bytes 4-5, name length 0; an entry is never shorter than its
\* fixed part
ListEntryBytes(declared) ==
    [i \in 1 .. (IF declared > ReprSize THEN declared ELSE ReprSize) |->
        IF i = 1 THEN 16
        ELSE IF i = 5 THEN declared % 256
        ELSE IF i = 6 THEN declared \div 256
        ELSE 0]

RECURSIVE ListBytes(_)
ListBytes(source) ==
    IF source = <<>> THEN <<>>
    ELSE ListEntryBytes(Head(source)) \o ListBytes(Tail(source))

\* AttributeListEntry.create_from_binary(binary_view): _REPR.unpack of the
\* first ReprSize bytes raises struct.error (<<>>) on a shorter view; the
\* name is None when the name length is 0
AttributeListEntryFromBinary(binary_view) ==
    IF Len(binary_view) < ReprSize THEN <<>>
    ELSE <<[attr_type |-> FromBytesUnsigned(SubSeq(binary_view, 1, 4)),
            entry_len |-> FromBytesUnsigned(SubSeq(binary_view, 5, 6)),
            name_len  |-> binary_view[7]]>>

\* one pass of the 'while True' loop of AttributeList.create_from_binary
AttributeListStep ==
    /\ al_pc = "loop"
    /\ Len(attr_list) < MaxListIter
    /\ LET entry == AttributeListEntryFromBinary(
                        SubSeq(al_view, al_offset + 1, Len(al_view)))
       IN  IF entry = <<>>
           THEN /\ al_pc' = "struct.error"
                /\ UNCHANGED <<al_offset, attr_list>>
           ELSE /\ al_offset' = al_offset + entry[1].entry_len
                /\ attr_list' = Append(attr_list, entry[1])
                /\ al_pc' = IF al_offset' >= Len(al_view) THEN "returned" ELSE "loop"
    /\ UNCHANGED <<al_source, al_view>>
    /\ UNCHANGED <<mft_vars, fx_vars, ds_vars, en_vars, fn_vars, pt_vars, tm_vars, sz_vars, dr_vars, wk_vars>>

AlIdle ==
    /\ al_pc = "idle"
    /\ al_source = <<>>
    /\ al_view = <<>>
    /\ al_offset = 0
    /\ attr_list = <<>>

(***************************************************************************)
(* Specifications                                                          *)
(***************************************************************************)
\* the MFT machine: every file of NumSlots slots
Init ==
    /\ file \in [1 .. NumSlots -> SlotContents]
    /\ MftIdle
    /\ AlIdle
    /\ WkIdle
    /\ DrIdle
    /\ SzIdle
    /\ TmIdle
    /\ PtIdle
    /\ FnIdle
    /\ EnIdle
    /\ FxIdle
    /\ DsIdle

Next ==
    \/ LoadStubInfo
    \/ \E index \in Slots : GetItem(index)
    \/ IterNext

Spec == Init /\ [][Next]_vars

\* apply_fixup_array on arbitrary buffers and on sector-structured entries
InitFixup ==
    /\ MftIdle
    /\ AlIdle
    /\ WkIdle
    /\ DrIdle
    /\ SzIdle
    /\ TmIdle
    /\ PtIdle
    /\ FnIdle
    /\ EnIdle
    /\ DsIdle
    /\ file = [k \in 1 .. NumSlots |-> EmptySlot]
    /\ \/ /\ fx_input \in ArbitraryBuffers
          /\ fx_count \in 0 .. MaxFxCount
          /\ fx_offset \in 0 .. MaxFxOffset
       \/ \E nsect \in 1 .. MaxSectors :
            /\ fx_count = nsect + 1
            /\ fx_offset \in 0 .. MaxFxOffset
            /\ \E sig \in BytePair, subs \in [1 .. nsect -> BytePair],
                  tails \in [1 .. nsect -> BytePair] :
                    fx_input = SectorEntry(nsect, fx_offset, sig, subs, tails)
    /\ bin_view = fx_input
    /\ entry_size = Len(fx_input)      \* the caller passes header.entry_alloc_len = len(binary_data)
    /\ fx_pc = "start"
    /\ sector_size = 0
    /\ fx_index = 0
    /\ position = 0
    /\ fx_checked = <<>>

NextFixup ==
    \/ FixupStart
    \/ FixupLoop

SpecFixup == InitFixup /\ [][NextFixup]_vars

\* a Datastream receiving attributes, merges and reads in any order
InitDS ==
    /\ MftIdle
    /\ AlIdle
    /\ WkIdle
    /\ DrIdle
    /\ SzIdle
    /\ TmIdle
    /\ PtIdle
    /\ FnIdle
    /\ EnIdle
    /\ file = [k \in 1 .. NumSlots |-> EmptySlot]
    /\ FxIdle
    /\ ds \in {Datastream(n) : n \in Names}
    /\ ds_call = "none"
    /\ ds_result = "none"
    /\ ds_read = <<>>
    /\ ds_added = EmptyBag
    /\ ds_reordered = FALSE

NextDS ==
    \/ \E n \in Names : \E data_attr \in DataAttrs(n) \cup OtherAttrs(n) : AddDataAttribute(data_attr)
    \/ \E source_ds \in SourceStreams : AddFromDatastream(source_ds)
    \/ ReadDataruns

SpecDS == InitDS /\ [][NextDS]_vars

\* MFT._read_full_entry on a record with any attribute areas, then reads
InitEntry ==
    /\ MftIdle
    /\ AlIdle
    /\ WkIdle
    /\ DrIdle
    /\ SzIdle
    /\ TmIdle
    /\ PtIdle
    /\ FnIdle
    /\ file = [k \in 1 .. NumSlots |-> EmptySlot]
    /\ FxIdle
    /\ DsIdle
    /\ en_pc = "load"
    /\ en_loading = 0
    /\ en_extras \in 0 .. MaxExtras
    /\ en_walked = <<>>
    /\ en_attrs = <<>>
    /\ en_streams = <<>>
    /\ tmp_attrs = <<>>
    /\ tmp_streams = <<>>
    /\ en_read = NoRead

NextEntry ==
    \/ \E item \in EntryItems : LoadAttribute(item)
    \/ EndOfAttributes
    \/ \E name \in Names : ReadContent(name)

SpecEntry == InitEntry /\ [][NextEntry]_vars

\* get_main_filename_attr on every list of FILE_NAME attributes
InitFn ==
    /\ MftIdle
    /\ AlIdle
    /\ WkIdle
    /\ DrIdle
    /\ SzIdle
    /\ TmIdle
    /\ PtIdle
    /\ file = [k \in 1 .. NumSlots |-> EmptySlot]
    /\ FxIdle
    /\ DsIdle
    /\ EnIdle
    /\ fn_pc = "start"
    /\ entry_fn_attrs \in UNION {[1 .. n -> FileNames] : n \in 0 .. MaxFnAttrs}
    /\ entry_main_fn = 0

NextFn == GetMainFilenameAttr

SpecFn == InitFn /\ [][NextFn]_vars

\* get_entry_full_path on every loaded MFT of NumPathSlots records, for every
\* form of its arguments; an entry object given is a base entry of the MFT
InitPath ==
    /\ MftIdle
    /\ AlIdle
    /\ WkIdle
    /\ DrIdle
    /\ SzIdle
    /\ TmIdle
    /\ file = [k \in 1 .. NumSlots |-> EmptySlot]
    /\ FxIdle
    /\ DsIdle
    /\ EnIdle
    /\ FnIdle
    /\ pt_pc = "start"
    /\ pt_mft \in {[i \in PathSlots \cup {root_id} |-> IF i = root_id THEN r ELSE m[i]] :
                      m \in {n \in [PathSlots -> UNION {PathRecords(i) : i \in PathSlots}] :
                                \A i \in PathSlots : n[i] \in PathRecords(i)},
                      r \in RootRecords}
    /\ pt_entry_number = None
    /\ pt_entry = None
    /\ working_entry = None
    /\ names = <<>>
    /\ pt_index = None
    /\ pt_seq = None
    /\ is_orphan = FALSE
    /\ pt_visited = <<>>
    /\ pt_path = <<>>

NextPath ==
    \/ \E entry_number \in PathSlots \cup {None},
          entry \in {i \in PathSlots : pt_mft[i].kind = "base"} \cup {None} :
            PathStart(entry_number, entry)
    \/ PathStep

SpecPath == InitPath /\ [][NextPath]_vars

\* convert_filetime on every FILETIME value and create_from_binary on every
\* binary stream
InitTime ==
    /\ MftIdle
    /\ AlIdle
    /\ WkIdle
    /\ DrIdle
    /\ SzIdle
    /\ file = [k \in 1 .. NumSlots |-> EmptySlot]
    /\ FxIdle
    /\ DsIdle
    /\ EnIdle
    /\ FnIdle
    /\ PtIdle
    /\ tm_pc = "start"
    /\ tm_stream \in TimestampStreams
    /\ tm_filetime = None
    /\ tm_converted = None
    /\ tm_created = None
    /\ tm_changed = None
    /\ tm_mft_changed = None
    /\ tm_accessed = None

NextTime ==
    \/ \E filetime \in FileTimes : ConvertFiletime(filetime)
    \/ CreateFromBinary

SpecTime == InitTime /\ [][NextTime]_vars

\* _find_mft_size on every source, the source positioned at offset 0; a
\* source that ends before an offset holds nothing at the later ones
InitSize ==
    /\ MftIdle
    /\ AlIdle
    /\ WkIdle
    /\ DrIdle
    /\ file = [k \in 1 .. NumSlots |-> EmptySlot]
    /\ FxIdle
    /\ DsIdle
    /\ EnIdle
    /\ FnIdle
    /\ PtIdle
    /\ TmIdle
    /\ sz_pc = "start"
    /\ sz_head \in SizeHeads
    /\ sz_windows \in {w \in [WindowOffsets -> WindowWords] :
                          /\ Len(sz_head) < 5 => \A s \in WindowOffsets : w[s] = <<>>
                          /\ \A s, t \in WindowOffsets : s < t /\ w[s] = <<>> => w[t] = <<>>}
    /\ sz_pos = 0
    /\ sz_size = 0

NextSize == FindMftSize

SpecSize == InitSize /\ [][NextSize]_vars

\* DataRuns on every run list of up to MaxRuns runs, whole (with or without
\* the byte that follows it) and cut short at every byte
InitRuns ==
    /\ MftIdle
    /\ AlIdle
    /\ WkIdle
    /\ file = [k \in 1 .. NumSlots |-> EmptySlot]
    /\ FxIdle
    /\ DsIdle
    /\ EnIdle
    /\ FnIdle
    /\ PtIdle
    /\ TmIdle
    /\ SzIdle
    /\ dr_pc = "start"
    /\ dr_source \in RunFieldLists
    /\ dr_view \in {SubSeq(RunListBytes(dr_source), 1, n) :
                       n \in 0 .. Len(RunListBytes(dr_source))}
    /\ dr_data_runs = <<>>

NextRuns == DataRunsInit

SpecRuns == InitRuns /\ [][NextRuns]_vars

\* the walk of every attribute area of up to MaxWalkAttrs attributes, under
\* every configuration of the enabled types
InitWalk ==
    /\ MftIdle
    /\ AlIdle
    /\ file = [k \in 1 .. NumSlots |-> EmptySlot]
    /\ FxIdle
    /\ DsIdle
    /\ EnIdle
    /\ FnIdle
    /\ PtIdle
    /\ TmIdle
    /\ SzIdle
    /\ DrIdle
    /\ wk_pc = "walk"
    /\ wk_source \in UNION {[1 .. n -> WalkSourceAttrs] : n \in 0 .. MaxWalkAttrs}
    /\ wk_tail \in WalkTails
    /\ wk_view = AreaCells(wk_source, wk_tail)
    /\ wk_load_attrs \in SUBSET WalkTypes
    /\ wk_offset = 0
    /\ wk_attrs = NoAttrs
    /\ wk_streams = <<>>
    /\ wk_parsed = <<>>

NextWalk == WalkStep

SpecWalk == InitWalk /\ [][NextWalk]_vars

\* AttributeList.create_from_binary on every content of at most
\* MaxListEntries entries, cut at every length
InitList ==
    /\ MftIdle
    /\ file = [k \in 1 .. NumSlots |-> EmptySlot]
    /\ FxIdle
    /\ DsIdle
    /\ EnIdle
    /\ FnIdle
    /\ PtIdle
    /\ TmIdle
    /\ SzIdle
    /\ DrIdle
    /\ WkIdle
    /\ al_pc = "loop"
    /\ al_source \in ListSources
    /\ al_view \in {SubSeq(ListBytes(al_source), 1, n) :
                       n \in 0 .. Len(ListBytes(al_source))}
    /\ al_offset = 0
    /\ attr_list = <<>>

NextList == AttributeListStep

SpecList == InitList /\ [][NextList]_vars

\* the MFT machine built without the stub scan: every file of at most
\* NumSlots slots
InitNoStub ==
    /\ file \in UNION {[1 .. n -> SlotContents] : n \in 0 .. NumSlots}
    /\ MftIdle
    /\ AlIdle
    /\ WkIdle
    /\ DrIdle
    /\ SzIdle
    /\ TmIdle
    /\ PtIdle
    /\ FnIdle
    /\ EnIdle
    /\ FxIdle
    /\ DsIdle

NextNoStub ==
    \/ InitWithoutStubInfo
    \/ IterNext

SpecNoStub == InitNoStub /\ [][NextNoStub]_vars

(***************************************************************************)
(* Properties of the MFT machine                                           *)
(***************************************************************************)
NonEmptySlots == {i \in Slots : ~file[i + 1].empty}

\* the non-empty slots that are bases in their own right
BaseSlots == {i \in NonEmptySlots : i \notin DOMAIN entries_child_parent}

\* the ascending enumeration of a set of slot numbers
RECURSIVE Ascending(_)
Ascending(S) ==
    IF S = {} THEN <<>>
    ELSE LET m == CHOOSE x \in S : \A y \in S : x <= y
         IN <<m>> \o Ascending(S \ {m})

SeqRange(s) == {s[k] : k \in 1 .. Len(s)}

\* C1: a complete iteration yields exactly number_valid_entries (= len(mft))
\* entries, and that counter is the number of non-empty slots that are bases
\* in their own right -- also when the MFT holds extension entries.
C1_IterCountEqualsValidEntries ==
    it_state = "stopped" =>
        /\ Len(yielded) = number_valid_entries
        /\ number_valid_entries = Cardinality(BaseSlots)

\* C2: after the stub scan every pair (e -> b) of the child-to-base map has a
\* non-empty slot b, b is the record number of e's base reference, slot b's
\* sequence number is the base sequence stored in e, and e is listed under b
\* in the forward map; every e listed under b in the forward map maps to b.
C2_ChildMapMatchesBase ==
    pc = "ready" =>
        /\ \A e \in DOMAIN entries_child_parent :
              LET b == entries_child_parent[e] IN
                /\ b \in NonEmptySlots
                /\ e \in NonEmptySlots
                /\ b = file[e + 1].base_record_ref
                /\ file[b + 1].seq_number = file[e + 1].base_record_seq
                /\ e \in SeqRange(entries_parent_child[b])
        /\ \A b \in Slots : \A k \in 1 .. Len(entries_parent_child[b]) :
              LET e == entries_parent_child[b][k] IN
                /\ e \in DOMAIN entries_child_parent
                /\ entries_child_parent[e] = b

C2_Witness ==
    /\ pc = "ready"
    /\ \E e \in DOMAIN entries_child_parent : entries_child_parent[e] # e

\* C3: a non-empty slot whose base reference names its own record number is
\* a base whatever base sequence it stores: it is not in the child-to-base
\* map, get(i) returns an entry and a complete iteration yields i.
C3_SelfReferenceIsBase ==
    pc = "ready" =>
        \A i \in NonEmptySlots :
            file[i + 1].base_record_ref = i =>
                /\ i \notin DOMAIN entries_child_parent
                /\ (get_index = i => get_result = "entry")
                /\ (it_state = "stopped" => i \in SeqRange(yielded))

\* C4: a non-empty slot whose base reference names a non-zero record number
\* that does not exist as a stub (empty slot, or past the last slot) is
\* classified as a base, and the scan completes without an error.
DanglingSlots ==
    {i \in NonEmptySlots :
        /\ file[i + 1].base_record_ref # 0
        /\ \/ file[i + 1].base_record_ref >= Len(file)
           \/ file[file[i + 1].base_record_ref + 1].empty}

C4_DanglingBaseRefIsBase ==
    (pc # "init" /\ DanglingSlots # {}) =>
        /\ scan_error = "none"
        /\ pc = "ready"
        /\ \A i \in DanglingSlots : i \notin DOMAIN entries_child_parent

\* C5: iteration yields, in strictly ascending record-number order and each
\* exactly once, every slot that is neither in the empty set nor in the
\* child-to-base map, and nothing else; empty slots and extensions are
\* skipped without error.
IterableSlots == {i \in Slots : i \notin empty_entries /\ i \notin DOMAIN entries_child_parent}

C5_IterationYieldsBasesAscending ==
    /\ it_state \notin {"MFTError", "ValueError"}
    /\ \A k \in 1 .. Len(yielded) : yielded[k] \in IterableSlots
    /\ \A k \in 1 .. Len(yielded) - 1 : yielded[k] < yielded[k + 1]
    /\ it_state = "stopped" => yielded = Ascending(IterableSlots)

C5_Witness ==
    /\ it_state = "stopped"
    /\ empty_entries # {}
    /\ DOMAIN entries_child_parent # {}
    /\ yielded # <<>>

\* C6: get(i) fails with ValueError, reading nothing, exactly when i is in
\* the empty set or in the child-to-base map; for every other i the entry is
\* built by reading slot i and then every extension registered for i, in
\* file order.
ExtensionsOf(i) == {e \in DOMAIN entries_child_parent : entries_child_parent[e] = i}

FxTerminated == fx_pc \in {"done", "FixUpError", "ZeroDivisionError", "ValueError"}

\* the sector layout the arguments describe: fx_count - 1 whole sectors
FxSectors == fx_count - 1
FxSectorSize == entry_size \div FxSectors
\* 0-based offset of the two trailing bytes of sector i
FxTail(i) == (i * FxSectorSize) - 2
FxTailOffsets == UNION {{FxTail(i), FxTail(i) + 1} : i \in 1 .. FxSectors}
FxArrayOffsets == fx_offset .. (fx_offset + (2 * fx_count) - 1)

\* The call is made on an entry of whole sectors whose fixup array lies
\* inside the entry clear of the sector tails, and every sector tail of the
\* buffer holds the signature (the first pair of the array).
FxProtectedEntry ==
    /\ fx_count >= 2
    /\ entry_size = Len(fx_input)
    /\ entry_size % FxSectors = 0
    /\ FxSectorSize >= 2
    /\ FxArrayOffsets \subseteq (0 .. entry_size - 1)
    /\ FxArrayOffsets \cap FxTailOffsets = {}
    /\ \A i \in 1 .. FxSectors :
          /\ fx_input[FxTail(i) + 1] = fx_input[fx_offset + 1]
          /\ fx_input[FxTail(i) + 2] = fx_input[fx_offset + 2]

\* the entry before its sector tails were overwritten: the tail of sector i
\* is the pair stored for it in the fixup array, every other byte is as in
\* the buffer
FxOriginalEntry ==
    [k \in 1 .. Len(fx_input) |->
        LET o == k - 1
            i == (o \div FxSectorSize) + 1
            t == o - FxTail(i)
        IN IF t >= 0 THEN fx_input[fx_offset + (2 * i) + t + 1] ELSE fx_input[k]]

\* C7: fixup round trip.  On an entry whose sector tails hold the signature
\* and whose fixup array stores the original tails, apply_fixup_array raises
\* nothing and ends with the buffer equal, byte for byte, to the original
\* entry.
C7_FixupRoundTrip ==
    FxProtectedEntry =>
        /\ fx_pc \in {"start", "loop", "done"}
        /\ fx_pc = "loop" => fx_index <= FxSectors + 1
        /\ fx_pc = "done" => bin_view = FxOriginalEntry

C7_Witness ==
    /\ FxProtectedEntry
    /\ fx_pc = "done"
    /\ fx_count = 3
    /\ bin_view # fx_input
    /\ bin_view[FxTail(1) + 1] # bin_view[FxTail(2) + 1]

\* C8: apply_fixup_array checks exactly the positions i*sector_size-2 for
\* i in 1..fx_count-1; it succeeds when each of them holds the signature and
\* fails with FixUpError if and only if at least one of them does not.
\* (Stated for arguments whose fixup array and claimed positions all lie
\* inside the buffer, where "holds the signature" has one meaning.)
FxClaimedPositions == {FxTail(i) : i \in 1 .. FxSectors}

FxHoldsSignature(pos) ==
    SliceBytes(fx_input, PySlice(pos, pos + 2, Len(fx_input)))
        = SliceBytes(fx_input, PySlice(fx_offset, fx_offset + 2, Len(fx_input)))

C8_ChecksExactlySectorTails ==
    (/\ fx_count >= 2
     /\ FxSectorSize >= 2
     /\ FxArrayOffsets \subseteq (0 .. entry_size - 1)
     /\ FxTerminated) =>
        /\ SeqRange(fx_checked) \subseteq FxClaimedPositions
        /\ fx_pc \in {"done", "FixUpError"}
        /\ fx_pc = "done" => SeqRange(fx_checked) = FxClaimedPositions
        /\ fx_pc = "FixUpError" <=> (\E p \in FxClaimedPositions : ~FxHoldsSignature(p))

\* C26: apply_fixup_array terminates for every fx_count and every entry_size,
\* fx_count = 0 and fx_count = 1 included.  The loop ends when the position
\* passes entry_size or when a comparison fails, so it terminates exactly
\* when every iteration that goes on goes on to a greater position: with a
\* sector size of 0 or less the slices compared are empty at every later
\* position too, and the loop repeats for ever.
C26_FixupTerminates ==
    (fx_pc = "loop" /\ fx_checked # <<>>) => position > fx_checked[Len(fx_checked)]

(***************************************************************************)
(* Properties of Datastream                                                *)
(***************************************************************************)
\* C9: residency invariant.  After any sequence of successful
\* add_data_attribute and add_from_datastream calls the stream never has
\* both embedded content and a fragment list.
C9_NeverContentAndFragments ==
    ~(ds.has_content /\ ds.has_data_runs)

IsOrderedByStartVcn(runs) ==
    \A k \in 1 .. Len(runs) - 1 : runs[k].start_vcn <= runs[k + 1].start_vcn

RECURSIVE BagOfRuns(_)
BagOfRuns(runs) ==
    IF runs = <<>> THEN EmptyBag ELSE BagAdd(BagOfRuns(Tail(runs)), Head(runs))

\* C10: every read of dataruns returns the run lists of all fragments added
\* so far, ordered by non-decreasing start VCN, and the sorted bit is never
\* set while the stored fragment list is out of order.
C10_DatarunsReadInVcnOrder ==
    /\ ds.data_runs_sorted => IsOrderedByStartVcn(ds.data_runs)
    /\ (ds_call = "dataruns" /\ ds_result = "ok") =>
          /\ IsOrderedByStartVcn(ds_read)
          /\ BagOfRuns(ds_read) = ds_added

C10_Witness ==
    /\ ds_call = "dataruns"
    /\ ds_result = "ok"
    /\ ds_reordered
    /\ Len(ds_read) = MaxFrags
    /\ \A k \in 1 .. Len(ds_read) - 1 : ds_read[k].start_vcn < ds_read[k + 1].start_vcn

\* C13: an illegal merge is rejected with DataStreamError and changes nothing.
\* In every state the stream can be in, add_data_attribute rejects exactly the
\* attributes that are not of type DATA or carry another name, and
\* add_from_datastream rejects exactly the sources of another name, and every
\* source when the receiving stream is resident; a call that ends in
\* DataStreamError leaves every field of the stream as it was, and a merge
\* into a resident stream always ends so.
C13_RejectedMergeChangesNothing ==
    /\ [](\A n \in Names : \A a \in DataAttrs(n) \cup OtherAttrs(n) :
            AddDataAttributeRejects(ds, a)
                <=> (a.attr_type_id # "DATA" \/ a.attr_name # ds.name))
    /\ [](\A s \in SourceStreams :
            AddFromDatastreamRejects(ds, s)
                <=> (s.name # ds.name \/ is_resident(ds)))
    /\ [][/\ (/\ ds_call' \in {"add_data_attribute", "add_from_datastream"}
               /\ ds_result' = "DataStreamError") => ds' = ds
          /\ (ds_call' = "add_from_datastream" /\ is_resident(ds))
                => ds_result' = "DataStreamError"]_vars

C13_Witness ==
    /\ ds_call = "add_from_datastream"
    /\ ds_result = "DataStreamError"
    /\ ds.has_content
    /\ is_resident(ds)

\* the run lists added so far, when each was added once and no two of them
\* start at the same VCN
AddedRunLists == {r \in RunLists : ds_added[r] > 0}

AddedStartsDistinct ==
    /\ \A r \in RunLists : ds_added[r] <= 1
    /\ \A r1, r2 \in AddedRunLists : r1.start_vcn = r2.start_vcn => r1 = r2

\* the one arrangement of these run lists by increasing start VCN
AddedInVcnOrder ==
    CHOOSE l \in [1 .. Cardinality(AddedRunLists) -> AddedRunLists] :
        \A i, j \in DOMAIN l : i < j => l[i].start_vcn < l[j].start_vcn

HighestEndVcn ==
    IF AddedRunLists = {} THEN 0
    ELSE CHOOSE e \in {r.end_vcn : r \in AddedRunLists} :
            \A r \in AddedRunLists : r.end_vcn <= e

\* C24: fragment assembly is order-independent.  For fragments with pairwise
\* distinct start VCNs the list that dataruns returns and the cluster_count
\* are determined by the set of fragments added, whatever the order of the
\* add_data_attribute calls and add_from_datastream merges that brought them.
C24_FragmentOrderIndependence ==
    AddedStartsDistinct =>
        /\ ds.cluster_count = HighestEndVcn
        /\ (ds_call = "dataruns" /\ ds_result = "ok") => ds_read = AddedInVcnOrder

\* MaxFrags fragments that arrived out of order were read, and the highest
\* end VCN is not the one of the fragment added last
C24_Witness ==
    /\ AddedStartsDistinct
    /\ Cardinality(AddedRunLists) = MaxFrags
    /\ ds_call = "dataruns"
    /\ ds_result = "ok"
    /\ ds_reordered
    /\ ds.cluster_count = HighestEndVcn
    /\ ds.cluster_count > 0

(***************************************************************************)
(* Properties of the assembled entry                                       *)
(***************************************************************************)
\* the DATA attributes of that name decoded from entry k of the record
\* (0: the base entry, k: the k-th extension), in walk order
WalkedData(k, name) ==
    SelectSeq(en_walked, LAMBDA w : /\ w.entry = k
                                    /\ w.raises = "none"
                                    /\ w.attr.attr_type_id = "DATA"
                                    /\ w.attr.attr_name = name)

StreamsNamed(name) == {k \in 1 .. Len(en_streams) : en_streams[k].name = name}

\* C11: a base entry whose only unnamed DATA attribute is non-resident with
\* start VCN 0 and current size S0, assembled with one extension whose only
\* unnamed DATA attribute is non-resident and starts right after the base's
\* end VCN, gives exactly one unnamed Datastream, of size S0, whose
\* cluster_count is the highest end VCN + 1 and whose two fragments read out
\* in start-VCN order.
C11_AssembledStream ==
    (/\ en_pc = "done"
     /\ en_extras = 1
     /\ Len(WalkedData(0, "")) = 1
     /\ Len(WalkedData(1, "")) = 1
     /\ WalkedData(0, "")[1].attr.non_resident
     /\ WalkedData(0, "")[1].attr.start_vcn = 0
     /\ WalkedData(1, "")[1].attr.non_resident
     /\ WalkedData(1, "")[1].attr.start_vcn = WalkedData(0, "")[1].attr.end_vcn + 1) =>
        /\ Cardinality(StreamsNamed("")) = 1
        /\ LET stream == en_streams[find_datastream(en_streams, "")]
           IN /\ stream.size = WalkedData(0, "")[1].attr.curr_sstream
              /\ stream.cluster_count = WalkedData(1, "")[1].attr.end_vcn + 1
              /\ RunsOf(get_dataruns(stream))
                    = <<WalkedData(0, "")[1].attr.data_runs, WalkedData(1, "")[1].attr.data_runs>>

\* C12: an entry made of an unnamed resident DATA attribute with content c
\* and a non-resident DATA attribute named n (the head of its stream, start
\* VCN 0) exposes exactly two Datastreams, get_datastream(n).size is the
\* current stream size of the named attribute, and reading
\* get_datastream(None).content returns c.
C12_ResidentAndNamedStreams ==
    \A n \in Names \ {""} :
        (/\ en_pc = "done"
         /\ en_extras = 0
         /\ Len(en_walked) = 2
         /\ Len(WalkedData(0, "")) = 1
         /\ ~WalkedData(0, "")[1].attr.non_resident
         /\ Len(WalkedData(0, n)) = 1
         /\ WalkedData(0, n)[1].attr.non_resident
         /\ WalkedData(0, n)[1].attr.start_vcn = 0) =>
            /\ Len(en_streams) = 2
            /\ Cardinality(StreamsNamed("")) = 1
            /\ Cardinality(StreamsNamed(n)) = 1
            /\ en_streams[find_datastream(en_streams, n)].size
                  = WalkedData(0, n)[1].attr.curr_sstream
            /\ (en_read.call = "content" /\ en_read.name = "") =>
                  /\ en_read.outcome = "ok"
                  /\ en_read.value = WalkedData(0, "")[1].attr.content

\* the attributes of the other types the walker decoded, in walk order
WalkedOther ==
    SelectSeq(en_walked, LAMBDA w : w.raises = "none" /\ w.attr.attr_type_id # "DATA")

\* C18: an attribute whose header check or content decoder raises is skipped
\* and the walk goes on: reading the record is never aborted by it, and the
\* entry returned holds every other attribute that was walked.
C18_AttributeFailureIsConfined ==
    /\ en_pc \notin {"HeaderError", "ContentError"}
    /\ en_pc = "done" =>
          /\ Len(en_attrs) = Len(WalkedOther)
          /\ \A k \in 1 .. Len(en_attrs) : en_attrs[k] = WalkedOther[k].attr

(***************************************************************************)
(* Properties of the main filename selection                               *)
(***************************************************************************)
\* the first FILE_NAME attribute, in list order, with the smallest attr_id
FnSmallestId ==
    CHOOSE k \in 1 .. Len(entry_fn_attrs) :
        /\ \A j \in 1 .. Len(entry_fn_attrs) :
              entry_fn_attrs[k].attr_id <= entry_fn_attrs[j].attr_id
        /\ \A j \in 1 .. k - 1 : entry_fn_attrs[j].attr_id # entry_fn_attrs[k].attr_id

FnSameParent(a, b) == a.parent_ref = b.parent_ref /\ a.parent_seq = b.parent_seq

\* C14: get_main_filename_attr returns None when the entry has no FILE_NAME
\* attribute; otherwise it returns an attribute with the (parent_ref,
\* parent_seq) of the FILE_NAME attribute with the smallest attribute id,
\* whose name type is the minimum over the attributes sharing that parent.
C14_MainFilenameSelection ==
    fn_pc = "done" =>
        IF entry_fn_attrs = <<>> THEN entry_main_fn = 0
        ELSE /\ entry_main_fn \in 1 .. Len(entry_fn_attrs)
             /\ FnSameParent(entry_fn_attrs[entry_main_fn], entry_fn_attrs[FnSmallestId])
             /\ \A j \in 1 .. Len(entry_fn_attrs) :
                   FnSameParent(entry_fn_attrs[j], entry_fn_attrs[FnSmallestId]) =>
                       entry_fn_attrs[entry_main_fn].name_type <= entry_fn_attrs[j].name_type

C14_Witness ==
    /\ fn_pc = "done"
    /\ Len(entry_fn_attrs) = MaxFnAttrs
    /\ entry_main_fn # 0
    /\ entry_main_fn # FnSmallestId
    /\ entry_fn_attrs[entry_main_fn].attr_id > entry_fn_attrs[FnSmallestId].attr_id

(***************************************************************************)
(* Properties of full-path resolution                                      *)
(***************************************************************************)
\* The parent chain of record i as the MFT describes it, with the records
\* passed so far in 'collected': it reaches the root ("ok"), or stops at a
\* parent that is no base entry of the recorded sequence number ("orphan",
\* stop is that parent), or at a record without FILE_NAME ("nofn"), or
\* goes on for more than 'fuel' records ("cycle").
RECURSIVE PathExpect(_, _, _)
PathExpect(i, collected, fuel) ==
    IF pt_mft[i].fn_attrs = <<>>
    THEN [kind |-> "nofn", names |-> collected, stop |-> i]
    ELSE LET p == pt_mft[i].fn_attrs[1].parent_ref
             q == pt_mft[i].fn_attrs[1].parent_seq
             c == Append(collected, i)
         IN IF p = root_id THEN [kind |-> "ok", names |-> c, stop |-> p]
            ELSE IF pt_mft[p].kind # "base" \/ pt_mft[p].seq_number # q
                 THEN [kind |-> "orphan", names |-> c, stop |-> p]
                 ELSE IF fuel = 0 THEN [kind |-> "cycle", names |-> c, stop |-> p]
                      ELSE PathExpect(p, c, fuel - 1)

PathExpected == PathExpect(working_entry, <<>>, NumPathSlots)
PathResolved == working_entry # None /\ pt_pc \notin {"start", "loop"}
OutermostFirst(chain) == [k \in 1 .. Len(chain) |-> chain[Len(chain) + 1 - k]]

\* C15: when the parent chain of the starting entry reaches a main filename
\* with parent_ref = 5 through base parents of the recorded sequence numbers,
\* get_entry_full_path returns (False, p), p being the names of the entries
\* of the chain, outermost ancestor first and the starting entry last.
C15_FullPathOfIntactChain ==
    (PathResolved /\ PathExpected.kind = "ok") =>
        /\ pt_pc = "returned"
        /\ ~is_orphan
        /\ pt_path = OutermostFirst(PathExpected.names)

C15_Witness ==
    /\ pt_pc = "returned"
    /\ ~is_orphan
    /\ Len(pt_path) = 2
    /\ pt_path[2] = working_entry

\* C16: when the chain meets a parent p # 5 that is an empty slot, an
\* extension, or a base entry of another sequence number, resolution stops
\* there: it returns (True, path of the names collected so far) and p is the
\* last record it has asked for.
C16_OrphanStopsAtFirstMismatch ==
    (PathResolved /\ PathExpected.kind = "orphan") =>
        /\ pt_pc = "returned"
        /\ is_orphan
        /\ pt_path = OutermostFirst(PathExpected.names)
        /\ pt_visited = Tail(PathExpected.names) \o <<PathExpected.stop>>

C16_Witness ==
    /\ pt_pc = "returned"
    /\ is_orphan
    /\ Len(pt_path) = 2
    /\ pt_mft[pt_visited[Len(pt_visited)]].kind = "base"

\* C17: when the starting entry or a parent reached on the chain has no
\* FILE_NAME attribute, get_entry_full_path fails with EntryError, and with
\* no error of another kind.
C17_NoFilenameIsEntryError ==
    /\ pt_pc # "AttributeError"
    /\ (PathResolved /\ PathExpected.kind = "nofn") => pt_pc = "EntryError"

\* C25: full-path resolution terminates on every MFT, cycles of parent
\* references included.  The loop is a function of (index, seq) and of the
\* MFT, which it does not change, and every iteration that goes on appends
\* one name; a resolution that terminates therefore takes each name from
\* another record and never holds more names than the MFT has records.
C25_PathResolutionTerminates ==
    Len(names) <= NumPathSlots

\* the arguments of the call have been handled
PathArgumentsHandled == pt_pc # "start"

\* C29: get_entry_full_path fails with MFTError when both entry_number and
\* entry are given, when neither is given, and when entry_number = 0 is given
\* alone; for entry_number >= 1 given alone the entry that is resolved is the
\* one self[entry_number] returns, and the call fails with the ValueError of
\* self[entry_number] when that raises.
C29_PathArgumentHandling ==
    PathArgumentsHandled =>
        /\ (pt_entry_number # None /\ pt_entry # None) => pt_pc = "MFTError"
        /\ (pt_entry_number = None /\ pt_entry = None) => pt_pc = "MFTError"
        /\ (pt_entry_number = 0 /\ pt_entry = None) => pt_pc = "MFTError"
        /\ (pt_entry_number # None /\ pt_entry_number >= 1 /\ pt_entry = None) =>
              IF GetItemRaises(pt_entry_number)
              THEN pt_pc = "ValueError"
              ELSE pt_pc # "MFTError" /\ working_entry = pt_entry_number

C29_Witness ==
    /\ pt_pc = "MFTError"
    /\ pt_entry_number = 0
    /\ pt_entry = None
    /\ pt_mft[0].kind = "base"
    /\ MainFilename(0) # <<>>

\* the entry being resolved has a main filename whose parent is record 5
ParentIsRoot ==
    /\ working_entry # None
    /\ MainFilename(working_entry) # <<>>
    /\ MainFilename(working_entry)[1].parent_ref = 5

\* C30: an entry whose main filename has parent_ref = 5 is never reported as
\* orphan: the call returns (False, its own name) and has read no record,
\* whatever parent_seq the filename stores and whatever record 5 holds.
C30_ChildOfRootIsNeverOrphan ==
    (PathResolved /\ ParentIsRoot) =>
        /\ pt_pc = "returned"
        /\ ~is_orphan
        /\ pt_path = <<working_entry>>
        /\ pt_visited = <<>>

C30_Witness ==
    /\ PathResolved
    /\ ParentIsRoot
    /\ pt_pc = "returned"
    /\ ~is_orphan
    /\ pt_mft[root_id].kind = "base"
    /\ pt_mft[root_id].seq_number # MainFilename(working_entry)[1].parent_seq

(***************************************************************************)
(* Properties of the timestamp conversion                                  *)
(***************************************************************************)
\* the UTC-aware datetime 1601-01-01T00:00:00+00:00 plus n/10 microseconds
UtcDatetime(n) == [micro |-> RoundHalfEven(n, 10), tzinfo |-> "utc"]

\* C19: convert_filetime(n) compares equal to the UTC-aware datetime
\* 1601-01-01 plus n/10 microseconds, and the four timestamps of
\* create_from_binary are these conversions of the four little-endian
\* 64-bit fields, in the order created, changed, mft_changed, accessed.
C19_TimestampsAreUtcAware ==
    /\ tm_pc = "converted" => datetime_eq(tm_converted, UtcDatetime(tm_filetime))
    /\ tm_pc = "returned" =>
          LET content == unpack(tm_stream)
          IN  /\ datetime_eq(tm_created, UtcDatetime(content[1]))
              /\ datetime_eq(tm_changed, UtcDatetime(content[2]))
              /\ datetime_eq(tm_mft_changed, UtcDatetime(content[3]))
              /\ datetime_eq(tm_accessed, UtcDatetime(content[4]))

(***************************************************************************)
(* Properties of the entry-size detection                                  *)
(***************************************************************************)
\* the documented order of preference of the candidate sizes
PreferenceOrder == <<1024, 4096, 512, 2048, 256, 8192, 1>>

\* the positions in the order of preference whose size S has a known
\* signature at offset S of the source
Qualifying ==
    {i \in 1 .. Len(PreferenceOrder) :
        ReadAt(sz_head, sz_windows, PreferenceOrder[i]) \in sigs}

FirstQualifying == CHOOSE i \in Qualifying : \A j \in Qualifying : i <= j

\* C20: when the first four bytes are one of FILE, BAAD, INDX, the detection
\* returns the first S in the order 1024, 4096, 512, 2048, 256, 8192, 1 whose
\* four bytes at offset S are also a known signature and leaves the source
\* at offset 0; it fails with MFTError when the first four bytes are no known
\* signature or when no S qualifies.
C20_EntrySizeDetection ==
    sz_pc \in {"returned", "MFTError"} =>
        IF ReadAt(sz_head, sz_windows, 0) \in sigs /\ Qualifying # {}
        THEN /\ sz_pc = "returned"
             /\ sz_size = PreferenceOrder[FirstQualifying]
             /\ sz_pos = 0
        ELSE sz_pc = "MFTError"

\* 4096 is returned for a source that has a signature at 4096 and at 512 and
\* none at 1024: the later but smaller candidate 512 is not the one chosen
C20_Witness ==
    /\ sz_pc = "returned"
    /\ sz_size = 4096
    /\ sz_windows[1024] \notin sigs
    /\ sz_windows[512] \in sigs
    /\ sz_windows[4096] \in sigs

(***************************************************************************)
(* Properties of the data-run decoding                                     *)
(***************************************************************************)
\* the value of a little-endian field: byte k weighs 256^(k-1)
RECURSIVE LittleEndian(_, _)
LittleEndian(field, k) ==
    IF k > Len(field) THEN 0
    ELSE field[k] * Pow256(k - 1) + LittleEndian(field, k + 1)

\* the same field as a signed number: the upper half of the range is negative
SignedLittleEndian(field) ==
    LET u == LittleEndian(field, 1)
    IN  IF 2 * u >= Pow256(Len(field)) THEN u - Pow256(Len(field)) ELSE u

\* the runs a run list stands for, from its i-th run on, previous being the
\* absolute offset of the last run before it that is not sparse
RECURSIVE RunsFrom(_, _, _)
RunsFrom(runs, i, previous) ==
    IF i > Len(runs) THEN <<>>
    ELSE IF runs[i].off = <<>>
    THEN <<<<LittleEndian(runs[i].len, 1), <<>>>>>> \o RunsFrom(runs, i + 1, previous)
    ELSE LET absolute == previous + SignedLittleEndian(runs[i].off)
         IN  <<<<LittleEndian(runs[i].len, 1), <<absolute>>>>>>
                \o RunsFrom(runs, i + 1, absolute)

\* the view holds the whole run list, its terminating zero byte included
DrWellFormed == Len(dr_view) >= Len(RunListBytes(dr_source)) - 1

\* C21: for a well-formed run list DataRuns holds the runs in stream order as
\* (length, absolute offset): the length is the unsigned little-endian value
\* of the length bytes; the absolute offset of a run with offset bytes is the
\* offset of the previous non-sparse run (0 before the first) plus the signed
\* little-endian delta; a run without offset bytes has the offset None and
\* leaves the running previous offset as it is.
C21_DataRunDecoding ==
    (dr_pc \notin {"idle", "start"} /\ DrWellFormed) =>
        /\ dr_pc = "returned"
        /\ dr_data_runs = RunsFrom(dr_source, 1, 0)

\* a list of an offset run, a sparse run and a second offset run with a
\* negative delta was decoded
C21_Witness ==
    /\ dr_pc = "returned"
    /\ DrWellFormed
    /\ Len(dr_source) = 3
    /\ dr_source[1].off = <<3>>
    /\ dr_source[2].off = <<>>
    /\ dr_source[3].off = <<0, 255>>
    /\ dr_data_runs[3][2] = <<3 - 256>>

\* C22: a truncated run list (the view ends before a terminating zero header
\* byte is read) is rejected with ContentError and no run list is returned.
C22_TruncatedRunListIsContentError ==
    (dr_pc \notin {"idle", "start"} /\ ~DrWellFormed) =>
        /\ dr_pc = "ContentError"
        /\ dr_data_runs = <<>>

(***************************************************************************)
(* Properties of the attribute walk                                        *)
(***************************************************************************)
\* the offset of the i-th attribute of the area (of the end marker for
\* i = Len(wk_source) + 1)
RECURSIVE WalkBoundary(_)
WalkBoundary(i) ==
    IF i = 1 THEN 0
    ELSE WalkBoundary(i - 1) + 1 + Len(wk_source[i - 1].content)

\* the positions in the area of the attributes whose type is enabled
WalkEnabled ==
    SelectSeq([i \in 1 .. Len(wk_source) |-> i],
              LAMBDA i : wk_source[i].attr_type \in wk_load_attrs)

\* those of them that have the given type, and those that are DATA attributes
\* of the given name
WalkEnabledOfType(t) == SelectSeq(WalkEnabled, LAMBDA i : wk_source[i].attr_type = t)

WalkEnabledData(n) ==
    SelectSeq(WalkEnabledOfType("DATA"), LAMBDA i : wk_source[i].attr_name = n)

WalkStreamsNamed(n) == SelectSeq(wk_streams, LAMBDA s : s.name = n)

\* C23: the walk stops at the first attribute boundary that holds 0xFFFFFFFF
\* and parses nothing after it; an attribute of a disabled type is not
\* decoded but the offset advances by its total length, so the attributes
\* after it are parsed at their offsets; every enabled non-DATA attribute is
\* appended to the attribute map under its type in stream order; every
\* enabled DATA attribute goes to the Datastream of its name only, never into
\* the attribute map.
C23_AttributeWalk ==
    /\ wk_pc # "struct.error"
    /\ wk_pc \in {"walk", "done"} => wk_offset <= WalkBoundary(Len(wk_source) + 1)
    /\ wk_pc = "done" =>
        /\ wk_offset = WalkBoundary(Len(wk_source) + 1)
        /\ wk_parsed = [k \in 1 .. Len(WalkEnabled) |-> WalkBoundary(WalkEnabled[k])]
        /\ wk_attrs["DATA"] = <<>>
        /\ \A t \in WalkTypes \ {"DATA"} :
            /\ Len(wk_attrs[t]) = Len(WalkEnabledOfType(t))
            /\ \A k \in 1 .. Len(wk_attrs[t]) :
                /\ wk_attrs[t][k].attr_type_id = t
                /\ wk_attrs[t][k].content = wk_source[WalkEnabledOfType(t)[k]].content
        /\ \A n \in Names :
            IF WalkEnabledData(n) = <<>> THEN WalkStreamsNamed(n) = <<>>
            ELSE /\ Len(WalkStreamsNamed(n)) = 1
                 /\ WalkStreamsNamed(n)[1].has_content
                 /\ WalkStreamsNamed(n)[1].content
                        = wk_source[WalkEnabledData(n)[Len(WalkEnabledData(n))]].content

\* a walk ended that skipped a disabled attribute whose content holds the
\* bytes of the end marker, decoded the DATA attribute after it, and left
\* the attribute behind the end marker alone
C23_Witness ==
    /\ wk_pc = "done"
    /\ Len(wk_source) = 2
    /\ wk_source[1].attr_type \notin wk_load_attrs
    /\ wk_source[1].content = <<EndCell>>
    /\ wk_source[2].attr_type = "DATA"
    /\ wk_tail # <<>>
    /\ "FILE_NAME" \in wk_load_attrs
    /\ wk_parsed = <<2>>
    /\ Len(wk_streams) = 1

(***************************************************************************)
(* Properties of AttributeList.create_from_binary                          *)
(***************************************************************************)
\* C27: decoding an ATTRIBUTE_LIST content terminates at the end of the
\* buffer: every pass of the loop that does not leave it moves the offset
\* forward, so the accumulated entry lengths reach the buffer length after
\* finitely many passes, also when an entry declares a length of 0.
C27_AttributeListTerminates ==
    [][(al_pc = "loop" /\ al_pc' = "loop") => al_offset' > al_offset]_vars

(***************************************************************************)
(* Properties of the iteration without the stub scan                       *)
(***************************************************************************)
\* without the stub scan no slot is skipped and at most one entry is yielded:
\* the entries yielded are none, or slot 0 alone
YieldsFirstSlotOnly ==
    /\ \A i \in Slots : ~IterSkip(i)
    /\ yielded \in {<<>>, <<0>>}

\* C28 as stated: without the stub scan the iteration never skips a slot and
\* yields at most one entry, and the step that follows the first yielded
\* entry fails with MFTError.
C28_NoStubIterationAsStated ==
    /\ []YieldsFirstSlotOnly
    /\ [][(it_state = "running" /\ yielded # <<>>) => it_state' = "MFTError"]_vars

\* C28: without the stub scan the iteration never skips a slot and yields at
\* most one entry; the step that follows the first yielded entry fails with
\* MFTError when the file holds a further slot and ends the iteration when
\* the file holds that one slot only.
C28_NoStubIteration ==
    /\ []YieldsFirstSlotOnly
    /\ [][(it_state = "running" /\ yielded # <<>>) =>
             it_state' = (IF it_pos < Len(file) THEN "MFTError" ELSE "stopped")]_vars

C28_Witness ==
    /\ pc = "ready"
    /\ number_valid_entries = 0
    /\ empty_entries = {}
    /\ Len(file) > 1
    /\ yielded = <<0>>
    /\ it_state = "MFTError"

====
